---- MODULE Spec2Model ----
(***************************************************************************)
(* RTP retransmission (RFC 4588, SSRC-multiplexed): the sender element     *)
(* rtprtxsend of gst/rtpmanager/gstrtprtxsend.c and the receiver element   *)
(* rtprtxreceive of gst/rtpmanager/gstrtprtxreceive.c as state machines.   *)
(* The two elements hold disjoint state: the specifications of the sender  *)
(* leave the receiver in its initial state and the other way round.        *)
(*                                                                         *)
(* Every section of a handler that runs with rtx->lock held is one atomic   *)
(* action.  The code the streaming thread runs without the lock is one     *)
(* action per access to the shared tables, so that upstream events,        *)
(* property changes and reset, which other threads run, interleave with it *)
(* the way the lock permits:                                               *)
(*   chain     ChainLock, then for each buffer of the detached queue       *)
(*             DoPushGetSsrcData [InsertSsrcData InsertRtxSsrc] BufferNew  *)
(*             PushRtx, then PushBuffer                                    *)
(*   caps      CapsGetSsrcData [InsertSsrcData InsertRtxSsrc] CapsClockRate*)
(* The receiver's chain takes the lock twice and pushes with the lock      *)
(* released: RecvChainClassify, RecvChainAssociate, RecvChainPush.         *)
(* An entry of ssrc_data that the streaming thread holds a pointer to and  *)
(* that another thread removes is freed: what the streaming thread then    *)
(* reads through the pointer is any value, what it writes is lost.         *)
(*                                                                         *)
(* Widths: sequence numbers are 16 bit and keep their width.  TLC's        *)
(* integers are 32 bit signed, so the 32 bit RTP timestamp and the guint32 *)
(* result of gst_rtp_rtx_send_get_ts_diff are modelled modulo TsMod.       *)
(***************************************************************************)
EXTENDS Integers, Sequences, FiniteSets, TLC

\* ------------------------------------------------------------- bounds
\* chain calls in one run
MaxChain == 2
\* retransmission requests counted by num_rtx_requests in one run
MaxRequests == 1
\* the same where the sequence numbers of the RTX packets are looked at
MaxSeqRequests == 2
\* chain calls of the receiver in one run
MaxRecvChain == 2
\* retransmission requests the receiver sees in one run
MaxRecvRequests == 2

\* ------------------------------------------------------ program constants
DEFAULT_MAX_SIZE_TIME == 0
DEFAULT_MAX_SIZE_PACKETS == 100
G_MAXUINT16 == 65535
\* first dynamic payload type: a mapped fmtp below it is replaced by pt + 1
MinDynamicPt == 96

\* guint16 arithmetic
SeqMod == G_MAXUINT16 + 1
\* guint32 arithmetic of timestamps and of the ms span (see the header)
TsMod == 2 ^ 20

\* --------------------------------------------------------- input domains
\* The inputs the element's peers feed it are drawn from the sets of env, a
\* record fixed by the initial state (one per specification, below):
\*   ssrcs          "ssrc" of upstream events
\*   rand_ssrcs     values of g_random_int ()
\*   masters        SSRCs of ingress packets and caps
\*   seqs           sequence numbers of ingress packets
\*   req_seqs       "seqnum" of a request: a guint, wider than 16 bit
\*   timestamps     RTP timestamps of ingress packets
\*   pts            RTP payload types of ingress packets
\*   rand_seqnums   values of g_random_int_range (0, G_MAXUINT16)
\*   clock_rates    clock-rate values of caps
\*   size_packets, size_time, pt_maps, ssrc_maps
\*                  values the properties are set to (maps: field name -> uint)
\*   bodies         extension, payload and padding regions of ingress packets
\*   garbage        bytes read from memory that was never written, or from
\*                  outside the region read (receiver)
PlainBody == [ext |-> <<>>, payload |-> <<7>>, padding |-> <<>>]

\* a header extension, an empty payload and two bytes of padding
PaddedBody == [ext |-> <<9>>, payload |-> <<>>, padding |-> <<0, 2>>]

\* ------------------------------------------------------------ the state
VARIABLES
  \* GstRtpRtxSend fields
  ssrc_data,            \* master ssrc -> SSRCRtxData
  rtx_ssrcs,            \* rtx ssrc -> master ssrc
  external_ssrc_map,    \* ssrc-map property: field name -> uint (NULL: empty)
  rtx_pt_map,           \* live map: original pt -> rtx pt
  pending_rtx_pt_map,   \* payload-type-map property: field name -> uint
  rtx_pt_map_changed,
  max_size_time,
  max_size_packets,
  pending,              \* queue of buffers waiting for retransmission
  num_rtx_requests,
  num_rtx_packets,
  \* the streaming thread
  l_fn,                 \* the handler it runs: "none" | "chain" | "caps"
  pc,                   \* "idle" | "push" | "insert_data" | "insert_rtx" |
                        \* "have_data" | "pushrtx"
  l_data,               \* data of gst_rtp_rtx_send_get_ssrc_data: the key of
                        \* the entry, the rtx ssrc chosen for a new entry,
                        \* and whether the entry has been freed since
  l_rtx,                \* new_buffer of _gst_rtp_rtx_buffer_new
  l_buffer,             \* chain's buffer argument
  l_pending,            \* chain's local pending (the detached queue)
  l_iter,               \* position of g_queue_foreach in l_pending
  \* what the element hands to its peers
  srcpad,               \* the last buffer pushed downstream, how it was
                        \* pushed, and the pushes of the current chain
                        \* call so far
  event_res,            \* the branch the last upstream event took, and
                        \* whether it was forwarded upstream or consumed
  n_chain,              \* chain calls so far
  collided,             \* history: the masters that a collision event
                        \* removed and that no packet or caps event has
                        \* named since
  \* GstRtpRtxReceive fields
  ssrc2_ssrc1_map,      \* association: rtx ssrc -> master ssrc and back
  seqnum_ssrc1_map,     \* requested seqnum -> master ssrc
  recv_rtx_pt_map,      \* rtx_pt_map, the live map: rtx pt -> original pt
  recv_pending_rtx_pt_map,   \* pending_rtx_pt_map: field name -> uint
  recv_rtx_pt_map_changed,   \* rtx_pt_map_changed
  recv_num_rtx_requests,     \* num_rtx_requests
  recv_num_rtx_packets,      \* num_rtx_packets
  num_rtx_assoc_packets,
  \* the receiver's streaming thread
  recv_pc,              \* "idle" | "classified" | "associated" | "abort"
  recv_l,               \* the locals of gst_rtp_rtx_receive_chain
  recv_srcpad,          \* what the last chain call pushed downstream
  recv_event_res,       \* the last upstream event, the branch it took and
                        \* whether it was forwarded upstream or consumed
  recv_n_chain,         \* chain calls so far
  assoc_masters,        \* history: the SSRCs that the request behind an
                        \* association named as master
  \* rtx->lock of the element looked at, and where each of its threads is
  lk,
  env                   \* the input domains (never changes)

svars == << ssrc_data, rtx_ssrcs, external_ssrc_map, rtx_pt_map,
            pending_rtx_pt_map, rtx_pt_map_changed, max_size_time,
            max_size_packets, pending, num_rtx_requests, num_rtx_packets,
            l_fn, pc, l_data, l_rtx, l_buffer, l_pending, l_iter,
            srcpad, event_res, n_chain, collided >>

rvars == << ssrc2_ssrc1_map, seqnum_ssrc1_map, recv_rtx_pt_map,
            recv_pending_rtx_pt_map, recv_rtx_pt_map_changed,
            recv_num_rtx_requests, recv_num_rtx_packets,
            num_rtx_assoc_packets, recv_pc, recv_l, recv_srcpad,
            recv_event_res, recv_n_chain, assoc_masters >>

vars == << svars, rvars, lk, env >>

\* --------------------------------------------------------------- helpers
EmptyMap == [x \in {} |-> 0]

Put(f, k, v) == [x \in (DOMAIN f) \cup {k} |-> IF x = k THEN v ELSE f[x]]

Del(f, k) == [x \in (DOMAIN f) \ {k} |-> f[x]]

\* g_strdup_printf ("%u", ssrc) on the SSRC values of the model
UintToStr(n) ==
  CASE n = 1 -> "1" [] n = 2 -> "2" [] n = 3 -> "3" [] n = 4 -> "4"
    [] OTHER -> "?"

\* atoi () on the field names of the model
Atoi(s) ==
  CASE s = "96" -> 96 [] s = "97" -> 97 [] s = "100" -> 100 [] OTHER -> 0

\* (gint16) x
ToInt16(x) ==
  LET m == x % SeqMod IN IF m >= SeqMod \div 2 THEN m - SeqMod ELSE m

\* gst_rtp_buffer_compare_seqnum (seqnum1, seqnum2)
gst_rtp_buffer_compare_seqnum(seqnum1, seqnum2) == ToInt16(seqnum2 - seqnum1)

buffer_queue_items_cmp(a, b) ==
  gst_rtp_buffer_compare_seqnum(b.seqnum, a.seqnum)

\* an RTP buffer: the fields of the fixed header the element reads or
\* writes (p is the padding bit) and the extension, payload and padding
\* regions
RtpBuffer(ssrc, seq, pt, ts, body) ==
  [ssrc |-> ssrc, seq |-> seq, pt |-> pt, timestamp |-> ts,
   p |-> body.padding # <<>>,
   ext |-> body.ext, payload |-> body.payload, padding |-> body.padding]

NoBuffer == [ssrc |-> 0]

\* gst_pad_push (rtx->srcpad, buffer), the n-th push of the chain call
Pushed(n, push, buffer) == [n |-> n, push |-> push, buffer |-> buffer]

NoPush == [n |-> 0, push |-> "none", buffer |-> NoBuffer]

NoData == [ssrc |-> 0, rtx_ssrc |-> 0, freed |-> FALSE]

NoEvent == [branch |-> "none", res |-> "none"]

\* an upstream event ends consumed (gst_event_unref, TRUE) or forwarded
\* (gst_pad_event_default)
EventRes(branch, res) == [branch |-> branch, res |-> res]

ssrc_rtx_data_new(rtx_ssrc, random) ==
  [rtx_ssrc |-> rtx_ssrc, next_seqnum |-> random, clock_rate |-> 0,
   queue |-> <<>>]

\* gst_rtp_rtx_send_choose_ssrc without the loop that redraws a value in use
choose_ssrc_no_redraw(sd, rs, choice, consider) ==
  IF consider THEN {choice} ELSE env.rand_ssrcs

\* the values gst_rtp_rtx_send_choose_ssrc can return: the choice when it is
\* considered and free, otherwise any draw of g_random_int () that is a key
\* of neither map
gst_rtp_rtx_send_choose_ssrc(sd, rs, choice, consider) ==
  LET used == (DOMAIN sd) \cup (DOMAIN rs) IN
  IF consider /\ choice \notin used THEN {choice} ELSE env.rand_ssrcs \ used

\* the outcomes of gst_rtp_rtx_send_get_ssrc_data (rtx, ssrc): the two maps
\* after the call (the entry returned is sd[ssrc])
gst_rtp_rtx_send_get_ssrc_data(sd, rs, ssrc) ==
  IF ssrc \notin DOMAIN sd THEN
    LET ssrc_str == UintToStr(ssrc)
        consider == ssrc_str \in DOMAIN external_ssrc_map
        choice == IF consider THEN external_ssrc_map[ssrc_str] ELSE 0
    IN { [sd |-> Put(sd, ssrc, ssrc_rtx_data_new(r, n)),
          rs |-> Put(rs, r, ssrc)] :
           r \in gst_rtp_rtx_send_choose_ssrc(sd, rs, choice, consider),
           n \in env.rand_seqnums }
  ELSE { [sd |-> sd, rs |-> rs] }

\* structure_to_hash_table without the g_hash_table_remove_all before it:
\* the entries of the live map that the structure does not replace stay
structure_to_hash_table_merged(s) ==
  [k \in {Atoi(f) : f \in DOMAIN s} \cup DOMAIN rtx_pt_map |->
     IF \E f \in DOMAIN s : Atoi(f) = k
     THEN LET f == CHOOSE f \in DOMAIN s : Atoi(f) = k IN s[f]
     ELSE rtx_pt_map[k]]

\* structure_to_hash_table over every field of the structure
structure_to_hash_table(s) ==
  [k \in {Atoi(f) : f \in DOMAIN s} |->
     LET f == CHOOSE f \in DOMAIN s : Atoi(f) = k IN s[f]]

\* gst_util_uint64_scale_int (val, num, denom) cast to guint32: a denom <= 0
\* fails the function's check, which returns G_MAXUINT64
ScaleToUint32(val, num, denom) ==
  IF denom <= 0 THEN TsMod - 1 ELSE ((val * num) \div denom) % TsMod

\* gst_rtp_rtx_send_get_ts_diff without the branch for a wrapped timestamp
get_ts_diff_no_wrap(data) ==
  LET high_ts == data.queue[Len(data.queue)].timestamp
      low_ts == data.queue[1].timestamp
      result == IF high_ts >= low_ts THEN high_ts - low_ts ELSE 0
  IN IF Len(data.queue) <= 1 THEN 0
     ELSE ScaleToUint32(result, 1000, data.clock_rate)

gst_rtp_rtx_send_get_ts_diff(data) ==
  LET high_buf == data.queue[Len(data.queue)]
      low_buf == data.queue[1]
      high_ts == high_buf.timestamp
      low_ts == low_buf.timestamp
      result == IF high_ts >= low_ts THEN high_ts - low_ts
                ELSE high_ts + TsMod - low_ts
  IN IF Len(data.queue) <= 1 THEN 0
     ELSE ScaleToUint32(result, 1000, data.clock_rate)

\* the outcomes of g_sequence_lookup (queue, search_item, cmp): the index of
\* the item found, 0 for NULL.  The sequence is a balanced tree whose shape
\* depends on the addresses of its nodes; the search descends from the root,
\* left when the node is the end node or sorts after the needle, right when
\* it sorts before.  lo..hi are the positions of the subtree searched,
\* Len(queue) + 1 is the end node.
RECURSIVE node_find(_, _, _, _)
node_find(queue, needle, lo, hi) ==
  IF lo > hi THEN {0}
  ELSE UNION { LET c == IF root = Len(queue) + 1 THEN 1
                        ELSE buffer_queue_items_cmp(queue[root], needle)
               IN IF c = 0 THEN {root}
                  ELSE IF c > 0 THEN node_find(queue, needle, lo, root - 1)
                  ELSE node_find(queue, needle, root + 1, hi)
               : root \in lo..hi }

g_sequence_lookup(queue, needle) ==
  node_find(queue, needle, 1, Len(queue) + 1)

\* the loop with the length tested before the append is counted: one packet
\* too many is kept
EvictByCountOffByOne(queue, max) ==
  IF Len(queue) > max + 1
  THEN SubSeq(queue, Len(queue) - max, Len(queue)) ELSE queue

\* while (g_sequence_get_length (queue) > max_size_packets) remove the first
RECURSIVE EvictByCount(_, _)
EvictByCount(queue, max) ==
  IF Len(queue) > max THEN EvictByCount(Tail(queue), max) ELSE queue

\* while (gst_rtp_rtx_send_get_ts_diff (data) > max_size_time) remove the first
RECURSIVE EvictByTime(_, _)
EvictByTime(data, max) ==
  IF gst_rtp_rtx_send_get_ts_diff(data) > max
  THEN EvictByTime([data EXCEPT !.queue = Tail(data.queue)], max)
  ELSE data

\* gst_rtp_buffer_set_payload_type: refuses a value of more than 7 bits
gst_rtp_buffer_set_payload_type(rtp, pt) ==
  IF pt < 128 THEN [rtp EXCEPT !.pt = pt] ELSE rtp

\* GST_WRITE_UINT16_BE
WriteUint16BE(v) == << (v \div 256) % 256, v % 256 >>

\* _gst_rtp_rtx_buffer_new with the whole packet copied (padding and P bit
\* kept) and the sequence number written low byte first
rtx_buffer_new_whole_copy(buffer, data) ==
  [buffer EXCEPT !.ssrc = data.rtx_ssrc, !.seq = data.next_seqnum,
                 !.pt = (buffer.pt + 1) % 128,
                 !.payload = << buffer.seq % 256, (buffer.seq \div 256) % 256 >>
                             \o buffer.payload]

\* _gst_rtp_rtx_buffer_new, the packet built from buffer once the entry of
\* its ssrc, data, has been read
gst_rtp_rtx_buffer_new(buffer, data) ==
  LET mapped == IF buffer.pt \in DOMAIN rtx_pt_map
                THEN rtx_pt_map[buffer.pt] % 256 ELSE 0
      fmtp == IF mapped < MinDynamicPt THEN (buffer.pt + 1) % 256 ELSE mapped
      copy == [ssrc |-> data.rtx_ssrc, seq |-> data.next_seqnum,
               pt |-> buffer.pt, timestamp |-> buffer.timestamp,
               p |-> FALSE, ext |-> buffer.ext,
               payload |-> WriteUint16BE(buffer.seq) \o buffer.payload,
               padding |-> <<>>]
  IN gst_rtp_buffer_set_payload_type(copy, fmtp)

\* ------------------------------------------------------------------ Init
\* gst_rtp_rtx_send_init
gst_rtp_rtx_send_init ==
  /\ ssrc_data = EmptyMap
  /\ rtx_ssrcs = EmptyMap
  /\ external_ssrc_map = EmptyMap
  /\ rtx_pt_map = EmptyMap
  /\ pending_rtx_pt_map = EmptyMap
  /\ rtx_pt_map_changed = FALSE
  /\ max_size_time = DEFAULT_MAX_SIZE_TIME
  /\ max_size_packets = DEFAULT_MAX_SIZE_PACKETS
  /\ pending = <<>>
  /\ num_rtx_requests = 0
  /\ num_rtx_packets = 0
  /\ l_fn = "none"
  /\ pc = "idle"
  /\ l_data = NoData
  /\ l_rtx = NoBuffer
  /\ l_buffer = NoBuffer
  /\ l_pending = <<>>
  /\ l_iter = 0
  /\ srcpad = NoPush
  /\ event_res = NoEvent
  /\ n_chain = 0
  /\ collided = {}

cfgvars == << external_ssrc_map, pending_rtx_pt_map, max_size_time,
              max_size_packets, env, rvars, lk >>

threadvars == << l_fn, pc, l_rtx, l_buffer, l_pending, l_iter,
                 srcpad, n_chain >>

\* --------------------------------------------------------------- actions
\* ChainLock without the update of the statistics
ChainLockUncounted(buffer) ==
  /\ pc = "idle"
  /\ n_chain < MaxChain
  /\ LET map == IF rtx_pt_map_changed
                THEN structure_to_hash_table(pending_rtx_pt_map)
                ELSE rtx_pt_map
         item == [seqnum |-> buffer.seq, timestamp |-> buffer.timestamp,
                  buffer |-> buffer]
     IN /\ rtx_pt_map' = map
        /\ rtx_pt_map_changed' = FALSE
        /\ IF buffer.pt \in DOMAIN map
           THEN \E g \in gst_rtp_rtx_send_get_ssrc_data(ssrc_data, rtx_ssrcs,
                                                        buffer.ssrc) :
                  LET data == g.sd[buffer.ssrc]
                      d1 == [data EXCEPT !.queue = Append(data.queue, item)]
                      d2 == IF max_size_packets # 0
                            THEN [d1 EXCEPT !.queue =
                                    EvictByCount(d1.queue, max_size_packets)]
                            ELSE d1
                      d3 == IF max_size_time # 0
                            THEN EvictByTime(d2, max_size_time)
                            ELSE d2
                  IN /\ ssrc_data' = [g.sd EXCEPT ![buffer.ssrc] = d3]
                     /\ rtx_ssrcs' = g.rs
           ELSE UNCHANGED << ssrc_data, rtx_ssrcs >>
  /\ IF Len(pending) > 0
     THEN /\ l_pending' = pending
          /\ pending' = <<>>
          /\ UNCHANGED num_rtx_packets
     ELSE /\ l_pending' = <<>>
          /\ UNCHANGED << pending, num_rtx_packets >>
  /\ l_fn' = "chain"
  /\ pc' = "push"
  /\ l_buffer' = buffer
  /\ l_iter' = 1
  /\ srcpad' = NoPush
  /\ n_chain' = n_chain + 1
  /\ UNCHANGED << cfgvars, num_rtx_requests, event_res, l_data, l_rtx >>
  /\ collided' = collided \ {buffer.ssrc}

\* gst_rtp_rtx_send_chain from its entry to g_mutex_unlock
ChainLock(buffer) ==
  /\ pc = "idle"
  /\ n_chain < MaxChain
  /\ LET map == IF rtx_pt_map_changed
                THEN structure_to_hash_table(pending_rtx_pt_map)
                ELSE rtx_pt_map
         item == [seqnum |-> buffer.seq, timestamp |-> buffer.timestamp,
                  buffer |-> buffer]
     IN /\ rtx_pt_map' = map
        /\ rtx_pt_map_changed' = FALSE
        /\ IF buffer.pt \in DOMAIN map
           THEN \E g \in gst_rtp_rtx_send_get_ssrc_data(ssrc_data, rtx_ssrcs,
                                                        buffer.ssrc) :
                  LET data == g.sd[buffer.ssrc]
                      d1 == [data EXCEPT !.queue = Append(data.queue, item)]
                      d2 == IF max_size_packets # 0
                            THEN [d1 EXCEPT !.queue =
                                    EvictByCount(d1.queue, max_size_packets)]
                            ELSE d1
                      d3 == IF max_size_time # 0
                            THEN EvictByTime(d2, max_size_time)
                            ELSE d2
                  IN /\ ssrc_data' = [g.sd EXCEPT ![buffer.ssrc] = d3]
                     /\ rtx_ssrcs' = g.rs
           ELSE UNCHANGED << ssrc_data, rtx_ssrcs >>
  /\ IF Len(pending) > 0
     THEN /\ l_pending' = pending
          /\ pending' = <<>>
          /\ num_rtx_packets' = num_rtx_packets + Len(pending)
     ELSE /\ l_pending' = <<>>
          /\ UNCHANGED << pending, num_rtx_packets >>
  /\ l_fn' = "chain"
  /\ pc' = "push"
  /\ l_buffer' = buffer
  /\ l_iter' = 1
  /\ srcpad' = NoPush
  /\ n_chain' = n_chain + 1
  /\ UNCHANGED << cfgvars, num_rtx_requests, event_res, l_data, l_rtx >>
  /\ collided' = collided \ {buffer.ssrc}

\* gst_rtp_rtx_send_get_ssrc_data (rtx, ssrc) called without the lock, up to
\* the first g_hash_table_insert: the entry found, or the values drawn for
\* a new one
GetSsrcDataUnlocked(ssrc) ==
  IF ssrc \in DOMAIN ssrc_data
  THEN /\ l_data' = [NoData EXCEPT !.ssrc = ssrc]
       /\ pc' = "have_data"
  ELSE LET ssrc_str == UintToStr(ssrc)
           consider == ssrc_str \in DOMAIN external_ssrc_map
           choice == IF consider THEN external_ssrc_map[ssrc_str] ELSE 0
       IN \E r \in gst_rtp_rtx_send_choose_ssrc(ssrc_data, rtx_ssrcs, choice,
                                                 consider) :
            /\ l_data' = [ssrc |-> ssrc, rtx_ssrc |-> r, freed |-> FALSE]
            /\ pc' = "insert_data"

\* do_push of the next buffer of the detached queue, lock released:
\* _gst_rtp_rtx_buffer_new up to its call of gst_rtp_rtx_send_get_ssrc_data
DoPushGetSsrcData ==
  /\ l_fn = "chain"
  /\ pc = "push"
  /\ l_iter <= Len(l_pending)
  /\ GetSsrcDataUnlocked(l_pending[l_iter].ssrc)
  /\ UNCHANGED << ssrc_data, rtx_ssrcs, cfgvars, rtx_pt_map,
                  rtx_pt_map_changed, pending, num_rtx_requests,
                  num_rtx_packets, l_fn, l_rtx, l_buffer, l_pending,
                  l_iter, srcpad, event_res, n_chain >>
  /\ UNCHANGED collided

\* ssrc_rtx_data_new (rtx_ssrc) and g_hash_table_insert (rtx->ssrc_data,
\* ssrc, data) of the unlocked gst_rtp_rtx_send_get_ssrc_data
InsertSsrcData ==
  /\ pc = "insert_data"
  /\ \E n \in env.rand_seqnums :
       ssrc_data' = Put(ssrc_data, l_data.ssrc,
                        ssrc_rtx_data_new(l_data.rtx_ssrc, n))
  /\ pc' = "insert_rtx"
  /\ UNCHANGED << rtx_ssrcs, cfgvars, rtx_pt_map, rtx_pt_map_changed, pending,
                  num_rtx_requests, num_rtx_packets, l_fn, l_data,
                  l_rtx, l_buffer, l_pending, l_iter, srcpad, event_res,
                  n_chain >>
  /\ UNCHANGED collided

\* g_hash_table_insert (rtx->rtx_ssrcs, rtx_ssrc, ssrc) of the unlocked
\* gst_rtp_rtx_send_get_ssrc_data
InsertRtxSsrc ==
  /\ pc = "insert_rtx"
  /\ rtx_ssrcs' = Put(rtx_ssrcs, l_data.rtx_ssrc, l_data.ssrc)
  /\ pc' = "have_data"
  /\ UNCHANGED << ssrc_data, cfgvars, rtx_pt_map, rtx_pt_map_changed, pending,
                  num_rtx_requests, num_rtx_packets, l_fn, l_data,
                  l_rtx, l_buffer, l_pending, l_iter, srcpad, event_res,
                  n_chain >>
  /\ UNCHANGED collided

\* BufferNew with next_seqnum incremented as an integer wider than 16 bits
BufferNewNoWrap ==
  /\ l_fn = "chain"
  /\ pc = "have_data"
  /\ LET buffer == l_pending[l_iter] IN
     IF ~l_data.freed /\ l_data.ssrc \in DOMAIN ssrc_data
     THEN LET data == ssrc_data[l_data.ssrc] IN
          /\ l_rtx' = gst_rtp_rtx_buffer_new(buffer, data)
          /\ ssrc_data' = [ssrc_data EXCEPT ![l_data.ssrc].next_seqnum =
                             data.next_seqnum + 1]
     ELSE \E r \in env.rand_ssrcs, n \in env.rand_seqnums :
            /\ l_rtx' = gst_rtp_rtx_buffer_new(buffer,
                           [rtx_ssrc |-> r, next_seqnum |-> n])
            /\ UNCHANGED ssrc_data
  /\ pc' = "pushrtx"
  /\ l_data' = NoData
  /\ UNCHANGED << rtx_ssrcs, cfgvars, rtx_pt_map, rtx_pt_map_changed, pending,
                  num_rtx_requests, num_rtx_packets, l_fn, l_buffer,
                  l_pending, l_iter, srcpad, event_res, n_chain >>
  /\ UNCHANGED collided

\* the rest of _gst_rtp_rtx_buffer_new: data->rtx_ssrc and
\* data->next_seqnum++ are read and written without the lock
BufferNew ==
  /\ l_fn = "chain"
  /\ pc = "have_data"
  /\ LET buffer == l_pending[l_iter] IN
     IF ~l_data.freed /\ l_data.ssrc \in DOMAIN ssrc_data
     THEN LET data == ssrc_data[l_data.ssrc] IN
          /\ l_rtx' = gst_rtp_rtx_buffer_new(buffer, data)
          /\ ssrc_data' = [ssrc_data EXCEPT ![l_data.ssrc].next_seqnum =
                             (data.next_seqnum + 1) % SeqMod]
     ELSE \E r \in env.rand_ssrcs, n \in env.rand_seqnums :
            /\ l_rtx' = gst_rtp_rtx_buffer_new(buffer,
                           [rtx_ssrc |-> r, next_seqnum |-> n])
            /\ UNCHANGED ssrc_data
  /\ pc' = "pushrtx"
  /\ l_data' = NoData
  /\ UNCHANGED << rtx_ssrcs, cfgvars, rtx_pt_map, rtx_pt_map_changed, pending,
                  num_rtx_requests, num_rtx_packets, l_fn, l_buffer,
                  l_pending, l_iter, srcpad, event_res, n_chain >>
  /\ UNCHANGED collided

\* gst_pad_push (rtx->srcpad, new_buffer) of do_push
PushRtx ==
  /\ pc = "pushrtx"
  /\ srcpad' = Pushed(srcpad.n + 1, "rtx", l_rtx)
  /\ l_rtx' = NoBuffer
  /\ l_iter' = l_iter + 1
  /\ pc' = "push"
  /\ UNCHANGED << ssrc_data, rtx_ssrcs, cfgvars, rtx_pt_map,
                  rtx_pt_map_changed, pending, num_rtx_requests,
                  num_rtx_packets, l_fn, l_data, l_buffer, l_pending,
                  event_res, n_chain >>
  /\ UNCHANGED collided

\* PushBuffer with the ingested buffer pushed before the retransmissions
\* that are still waiting in the detached queue
PushBufferEarly ==
  /\ l_fn = "chain"
  /\ pc = "push"
  /\ srcpad' = Pushed(srcpad.n + 1, "buffer", l_buffer)
  /\ l_fn' = "none"
  /\ pc' = "idle"
  /\ l_buffer' = NoBuffer
  /\ l_pending' = <<>>
  /\ l_iter' = 0
  /\ UNCHANGED << ssrc_data, rtx_ssrcs, cfgvars, rtx_pt_map,
                  rtx_pt_map_changed, pending, num_rtx_requests,
                  num_rtx_packets, l_data, l_rtx, event_res, n_chain >>
  /\ UNCHANGED collided

\* the end of gst_rtp_rtx_send_chain: the detached queue is freed and the
\* ingested buffer pushed
PushBuffer ==
  /\ l_fn = "chain"
  /\ pc = "push"
  /\ l_iter > Len(l_pending)
  /\ srcpad' = Pushed(srcpad.n + 1, "buffer", l_buffer)
  /\ l_fn' = "none"
  /\ pc' = "idle"
  /\ l_buffer' = NoBuffer
  /\ l_pending' = <<>>
  /\ l_iter' = 0
  /\ UNCHANGED << ssrc_data, rtx_ssrcs, cfgvars, rtx_pt_map,
                  rtx_pt_map_changed, pending, num_rtx_requests,
                  num_rtx_packets, l_data, l_rtx, event_res, n_chain >>
  /\ UNCHANGED collided

\* gst_rtp_rtx_send_src_event, GstRTPRetransmissionRequest
RetransmissionRequest(seqnum, ssrc) ==
  /\ IF ssrc \in DOMAIN ssrc_data
     THEN /\ num_rtx_requests < env.max_requests
          /\ num_rtx_requests' = num_rtx_requests + 1
          /\ LET data == ssrc_data[ssrc]
                 search_item == [seqnum |-> seqnum % SeqMod]
             IN \E iter \in g_sequence_lookup(data.queue, search_item) :
                  IF iter # 0
                  THEN /\ pending' = Append(pending, data.queue[iter].buffer)
                       /\ event_res' = EventRes("request_found", "consumed")
                  ELSE /\ UNCHANGED pending
                       /\ event_res' = EventRes("request_miss", "consumed")
     ELSE /\ UNCHANGED << num_rtx_requests, pending >>
          /\ event_res' = EventRes("request_unknown", "consumed")
  /\ UNCHANGED << ssrc_data, rtx_ssrcs, cfgvars, rtx_pt_map,
                  rtx_pt_map_changed, num_rtx_packets, threadvars, l_data >>
  /\ UNCHANGED collided

\* ssrc_rtx_data_free of the entries with these keys: a pointer the
\* streaming thread holds to one of them dangles from now on
Freed(keys) ==
  IF pc \in {"insert_rtx", "have_data"} /\ l_data.ssrc \in keys
  THEN [l_data EXCEPT !.freed = TRUE] ELSE l_data

\* Collision with the entry of a collided master removed from ssrc_data and
\* its rtx ssrc left in rtx_ssrcs
CollisionKeepsRtxSsrc(ssrc) ==
  /\ IF ssrc \in DOMAIN rtx_ssrcs
     THEN LET master_ssrc == rtx_ssrcs[ssrc] IN
          \E g \in gst_rtp_rtx_send_get_ssrc_data(ssrc_data, rtx_ssrcs,
                                                  master_ssrc) :
          \E new \in gst_rtp_rtx_send_choose_ssrc(g.sd, g.rs, 0, FALSE) :
            /\ ssrc_data' = [g.sd EXCEPT ![master_ssrc].rtx_ssrc = new]
            /\ rtx_ssrcs' = Put(Del(g.rs, ssrc), new, master_ssrc)
            /\ event_res' = EventRes("collision_rtx", "consumed")
            /\ UNCHANGED l_data
     ELSE IF ssrc \in DOMAIN ssrc_data
          THEN /\ rtx_ssrcs' = rtx_ssrcs
               /\ ssrc_data' = Del(ssrc_data, ssrc)
               /\ l_data' = Freed({ssrc})
               /\ event_res' = EventRes("collision_master", "forwarded")
          ELSE /\ UNCHANGED << ssrc_data, rtx_ssrcs, l_data >>
               /\ event_res' = EventRes("collision_unknown", "forwarded")
  /\ UNCHANGED << cfgvars, rtx_pt_map, rtx_pt_map_changed, pending,
                  num_rtx_requests, num_rtx_packets, threadvars >>
  /\ collided' = IF ssrc \notin DOMAIN rtx_ssrcs /\ ssrc \in DOMAIN ssrc_data
                 THEN collided \cup {ssrc} ELSE collided

\* gst_rtp_rtx_send_src_event, GstRTPCollision
Collision(ssrc) ==
  /\ IF ssrc \in DOMAIN rtx_ssrcs
     THEN LET master_ssrc == rtx_ssrcs[ssrc] IN
          \E g \in gst_rtp_rtx_send_get_ssrc_data(ssrc_data, rtx_ssrcs,
                                                  master_ssrc) :
          \E new \in gst_rtp_rtx_send_choose_ssrc(g.sd, g.rs, 0, FALSE) :
            /\ ssrc_data' = [g.sd EXCEPT ![master_ssrc].rtx_ssrc = new]
            /\ rtx_ssrcs' = Put(Del(g.rs, ssrc), new, master_ssrc)
            /\ event_res' = EventRes("collision_rtx", "consumed")
            /\ UNCHANGED l_data
     ELSE IF ssrc \in DOMAIN ssrc_data
          THEN /\ rtx_ssrcs' = Del(rtx_ssrcs, ssrc_data[ssrc].rtx_ssrc)
               /\ ssrc_data' = Del(ssrc_data, ssrc)
               /\ l_data' = Freed({ssrc})
               /\ event_res' = EventRes("collision_master", "forwarded")
          ELSE /\ UNCHANGED << ssrc_data, rtx_ssrcs, l_data >>
               /\ event_res' = EventRes("collision_unknown", "forwarded")
  /\ UNCHANGED << cfgvars, rtx_pt_map, rtx_pt_map_changed, pending,
                  num_rtx_requests, num_rtx_packets, threadvars >>
  /\ collided' = IF ssrc \notin DOMAIN rtx_ssrcs /\ ssrc \in DOMAIN ssrc_data
                 THEN collided \cup {ssrc} ELSE collided

\* gst_rtp_rtx_send_sink_event, GST_EVENT_CAPS: a serialized event, handled
\* by the streaming thread between two chain calls, without the lock.  Up
\* to its call of gst_rtp_rtx_send_get_ssrc_data.
CapsGetSsrcData(ssrc) ==
  /\ l_fn = "none"
  /\ pc = "idle"
  /\ l_fn' = "caps"
  /\ GetSsrcDataUnlocked(ssrc)
  /\ UNCHANGED << ssrc_data, rtx_ssrcs, cfgvars, rtx_pt_map,
                  rtx_pt_map_changed, pending, num_rtx_requests,
                  num_rtx_packets, l_rtx, l_buffer, l_pending, l_iter, srcpad,
                  event_res, n_chain >>
  /\ collided' = collided \ {ssrc}

\* gst_structure_get_int (s, "clock-rate", &data->clock_rate): caps without
\* the field (has_clock_rate FALSE) leave the value of the entry
CapsClockRate(has_clock_rate, clock_rate) ==
  /\ l_fn = "caps"
  /\ pc = "have_data"
  /\ ssrc_data' =
       IF has_clock_rate /\ ~l_data.freed /\ l_data.ssrc \in DOMAIN ssrc_data
       THEN [ssrc_data EXCEPT ![l_data.ssrc].clock_rate = clock_rate]
       ELSE ssrc_data
  /\ l_fn' = "none"
  /\ pc' = "idle"
  /\ l_data' = NoData
  /\ UNCHANGED << rtx_ssrcs, cfgvars, rtx_pt_map, rtx_pt_map_changed, pending,
                  num_rtx_requests, num_rtx_packets, l_rtx, l_buffer,
                  l_pending, l_iter, srcpad, event_res, n_chain >>
  /\ UNCHANGED collided

\* gst_rtp_rtx_send_set_property
SetSsrcMap(value) ==
  /\ external_ssrc_map' = value
  /\ UNCHANGED << ssrc_data, rtx_ssrcs, rtx_pt_map, pending_rtx_pt_map,
                  rtx_pt_map_changed, max_size_time, max_size_packets,
                  pending, num_rtx_requests, num_rtx_packets, threadvars,
                  l_data, event_res, env, rvars, lk >>
  /\ UNCHANGED collided

SetPayloadTypeMap(value) ==
  /\ pending_rtx_pt_map' = value
  /\ rtx_pt_map_changed' = TRUE
  /\ UNCHANGED << ssrc_data, rtx_ssrcs, rtx_pt_map, external_ssrc_map,
                  max_size_time, max_size_packets, pending, num_rtx_requests,
                  num_rtx_packets, threadvars, l_data, event_res,
                  env, rvars, lk >>
  /\ UNCHANGED collided

SetMaxSizeTime(value) ==
  /\ max_size_time' = value
  /\ UNCHANGED << ssrc_data, rtx_ssrcs, rtx_pt_map, external_ssrc_map,
                  pending_rtx_pt_map, rtx_pt_map_changed, max_size_packets,
                  pending, num_rtx_requests, num_rtx_packets, threadvars,
                  l_data, event_res, env, rvars, lk >>
  /\ UNCHANGED collided

SetMaxSizePackets(value) ==
  /\ max_size_packets' = value
  /\ UNCHANGED << ssrc_data, rtx_ssrcs, rtx_pt_map, external_ssrc_map,
                  pending_rtx_pt_map, rtx_pt_map_changed, max_size_time,
                  pending, num_rtx_requests, num_rtx_packets, threadvars,
                  l_data, event_res, env, rvars, lk >>
  /\ UNCHANGED collided

\* gst_rtp_rtx_send_reset without the reset of the counters
ResetKeepsCounters ==
  /\ pending' = <<>>
  /\ ssrc_data' = EmptyMap
  /\ rtx_ssrcs' = EmptyMap
  /\ l_data' = Freed(DOMAIN ssrc_data)
  /\ UNCHANGED << cfgvars, rtx_pt_map, rtx_pt_map_changed, threadvars,
                  event_res, num_rtx_requests, num_rtx_packets >>
  /\ UNCHANGED collided

\* gst_rtp_rtx_send_reset
Reset ==
  /\ pending' = <<>>
  /\ ssrc_data' = EmptyMap
  /\ rtx_ssrcs' = EmptyMap
  /\ num_rtx_requests' = 0
  /\ num_rtx_packets' = 0
  /\ l_data' = Freed(DOMAIN ssrc_data)
  /\ UNCHANGED << cfgvars, rtx_pt_map, rtx_pt_map_changed, threadvars,
                  event_res >>
  /\ UNCHANGED collided

\* ============================================================ receiver
\* the locals of gst_rtp_rtx_receive_chain that live across its sections
RecvLocals(buffer, is_rtx, orign_seqnum, origin_payload_type) ==
  [buffer |-> buffer, is_rtx |-> is_rtx, orign_seqnum |-> orign_seqnum,
   origin_payload_type |-> origin_payload_type, ssrc1 |-> 0, drop |-> FALSE]

NoLocals == RecvLocals(NoBuffer, FALSE, 0, 0)

RecvEventRes(branch, res, seqnum, ssrc) ==
  [branch |-> branch, res |-> res, seqnum |-> seqnum, ssrc |-> ssrc]

\* gst_rtp_rtx_receive_init
gst_rtp_rtx_receive_init ==
  /\ ssrc2_ssrc1_map = EmptyMap
  /\ seqnum_ssrc1_map = EmptyMap
  /\ recv_rtx_pt_map = EmptyMap
  /\ recv_pending_rtx_pt_map = EmptyMap
  /\ recv_rtx_pt_map_changed = FALSE
  /\ recv_num_rtx_requests = 0
  /\ recv_num_rtx_packets = 0
  /\ num_rtx_assoc_packets = 0
  /\ recv_pc = "idle"
  /\ recv_l = NoLocals
  /\ recv_srcpad = NoPush
  /\ recv_event_res = RecvEventRes("none", "none", 0, 0)
  /\ recv_n_chain = 0
  /\ assoc_masters = {}

\* structure_to_hash_table_inv with the field name as key and the value as
\* value of the entry inserted
structure_to_hash_table_not_inv(s) ==
  { [k \in {Atoi(f) : f \in DOMAIN s} |->
       LET f == CHOOSE f \in DOMAIN s : Atoi(f) = k IN s[f]] }

\* structure_to_hash_table_inv over every field of the structure, the
\* fields in any order: a later field with the same value replaces the entry
structure_to_hash_table_inv(s) ==
  { hash \in [{s[f] : f \in DOMAIN s} -> {Atoi(f) : f \in DOMAIN s}] :
      \A v \in DOMAIN hash : \E f \in DOMAIN s : s[f] = v /\ hash[v] = Atoi(f) }

\* GST_READ_UINT16_BE with the low byte read first
ReadUint16LE(data) == data[2] * 256 + data[1]

\* GST_READ_UINT16_BE
ReadUint16BE(data) == data[1] * 256 + data[2]

\* the sequences of n bytes of memory that was never written
Uninitialized(n) == [1..n -> env.garbage]

\* the outcomes of _gst_rtp_buffer_new_from_rtx for a payload of two bytes
\* or more: the padding region is allocated and only its last byte written
gst_rtp_buffer_new_from_rtx(rtp, ssrc1, orign_seqnum, origin_payload_type) ==
  LET pad_len == Len(rtp.padding) IN
  { gst_rtp_buffer_set_payload_type(
      [rtp EXCEPT !.ssrc = ssrc1, !.seq = orign_seqnum,
                  !.payload = SubSeq(rtp.payload, 3, Len(rtp.payload)),
                  !.padding = IF pad_len = 0 THEN <<>>
                              ELSE g \o << pad_len >>],
      origin_payload_type) : g \in Uninitialized(pad_len - 1) }

\* RecvChainClassify with every packet taken for a retransmission
RecvChainClassifyAnyPt(buffer) ==
  /\ recv_pc = "idle"
  /\ recv_n_chain < MaxRecvChain
  /\ recv_pc' = "classified"
  /\ recv_l' = RecvLocals(buffer, TRUE,
                          ReadUint16BE(buffer.payload \o << 0, 0 >>), 96)
  /\ recv_srcpad' = NoPush
  /\ recv_n_chain' = recv_n_chain + 1
  /\ UNCHANGED << ssrc2_ssrc1_map, seqnum_ssrc1_map, recv_rtx_pt_map,
                  recv_rtx_pt_map_changed, recv_pending_rtx_pt_map,
                  recv_num_rtx_requests, recv_num_rtx_packets,
                  num_rtx_assoc_packets, recv_event_res,
                  assoc_masters, svars, lk, env >>

\* gst_rtp_rtx_receive_chain, the first locked section and the reads that
\* follow it: the live map is refreshed and the packet classified; the OSN
\* is read from the first two bytes at the payload pointer, whatever the
\* length of the payload
RecvChainClassify(buffer) ==
  /\ recv_pc = "idle"
  /\ recv_n_chain < MaxRecvChain
  /\ \E map \in IF recv_rtx_pt_map_changed
                THEN structure_to_hash_table_inv(recv_pending_rtx_pt_map)
                ELSE {recv_rtx_pt_map} :
       LET is_rtx == buffer.pt \in DOMAIN map
           origin_payload_type == IF is_rtx THEN map[buffer.pt] % 256 ELSE 0
       IN /\ recv_rtx_pt_map' = map
          /\ recv_rtx_pt_map_changed' = FALSE
          /\ IF is_rtx /\ Len(buffer.payload) < 2
             THEN \/ /\ recv_pc' = "abort"
                     /\ recv_l' = RecvLocals(buffer, TRUE, 0,
                                             origin_payload_type)
                  \/ \E b \in env.garbage :
                       /\ recv_pc' = "classified"
                       /\ recv_l' = RecvLocals(buffer, TRUE,
                            ReadUint16BE(buffer.payload \o << b, b >>),
                            origin_payload_type)
             ELSE /\ recv_pc' = "classified"
                  /\ recv_l' = RecvLocals(buffer, is_rtx,
                       IF is_rtx THEN ReadUint16BE(buffer.payload) ELSE 0,
                       origin_payload_type)
  /\ recv_srcpad' = NoPush
  /\ recv_n_chain' = recv_n_chain + 1
  /\ UNCHANGED << ssrc2_ssrc1_map, seqnum_ssrc1_map, recv_pending_rtx_pt_map,
                  recv_num_rtx_requests, recv_num_rtx_packets,
                  num_rtx_assoc_packets, recv_event_res,
                  assoc_masters, svars, lk, env >>

\* RecvChainAssociate with the request left in seqnum_ssrc1_map
RecvChainAssociateKeepsRequest ==
  /\ recv_pc = "classified"
  /\ recv_pc' = "associated"
  /\ LET ssrc == recv_l.buffer.ssrc
         orign_seqnum == recv_l.orign_seqnum
     IN IF ~recv_l.is_rtx
        THEN UNCHANGED << ssrc2_ssrc1_map, seqnum_ssrc1_map,
                          recv_num_rtx_packets, num_rtx_assoc_packets,
                          recv_l >>
        ELSE /\ recv_num_rtx_packets' = recv_num_rtx_packets + 1
             /\ num_rtx_assoc_packets' = num_rtx_assoc_packets + 1
             /\ recv_l' = [recv_l EXCEPT !.ssrc1 =
                             IF ssrc \in DOMAIN ssrc2_ssrc1_map
                             THEN ssrc2_ssrc1_map[ssrc]
                             ELSE IF orign_seqnum \in DOMAIN seqnum_ssrc1_map
                             THEN seqnum_ssrc1_map[orign_seqnum] ELSE ssrc]
             /\ ssrc2_ssrc1_map' =
                  IF ssrc \notin DOMAIN ssrc2_ssrc1_map
                     /\ orign_seqnum \in DOMAIN seqnum_ssrc1_map
                  THEN Put(ssrc2_ssrc1_map, ssrc,
                           seqnum_ssrc1_map[orign_seqnum])
                  ELSE ssrc2_ssrc1_map
             /\ UNCHANGED seqnum_ssrc1_map
  /\ assoc_masters' = assoc_masters \cup { ssrc2_ssrc1_map'[s] :
                         s \in DOMAIN ssrc2_ssrc1_map'
                               \ DOMAIN ssrc2_ssrc1_map }
  /\ UNCHANGED << recv_rtx_pt_map, recv_pending_rtx_pt_map,
                  recv_rtx_pt_map_changed, recv_num_rtx_requests,
                  recv_srcpad, recv_event_res, recv_n_chain, svars, lk, env >>

\* gst_rtp_rtx_receive_chain, the second locked section
RecvChainAssociate ==
  /\ recv_pc = "classified"
  /\ recv_pc' = "associated"
  /\ LET ssrc == recv_l.buffer.ssrc
         orign_seqnum == recv_l.orign_seqnum
     IN IF ~recv_l.is_rtx
        THEN UNCHANGED << ssrc2_ssrc1_map, seqnum_ssrc1_map,
                          recv_num_rtx_packets, num_rtx_assoc_packets,
                          recv_l >>
        ELSE /\ recv_num_rtx_packets' = recv_num_rtx_packets + 1
             /\ IF ssrc \in DOMAIN ssrc2_ssrc1_map
                THEN /\ recv_l' = [recv_l EXCEPT
                                     !.ssrc1 = ssrc2_ssrc1_map[ssrc]]
                     /\ num_rtx_assoc_packets' = num_rtx_assoc_packets + 1
                     /\ UNCHANGED << ssrc2_ssrc1_map, seqnum_ssrc1_map >>
                ELSE IF orign_seqnum \in DOMAIN seqnum_ssrc1_map
                THEN LET ssrc1 == seqnum_ssrc1_map[orign_seqnum] IN
                     /\ recv_l' = [recv_l EXCEPT !.ssrc1 = ssrc1]
                     /\ seqnum_ssrc1_map' =
                          Del(seqnum_ssrc1_map, orign_seqnum)
                     /\ ssrc2_ssrc1_map' =
                          Put(Put(ssrc2_ssrc1_map, ssrc, ssrc1), ssrc1, ssrc)
                     /\ num_rtx_assoc_packets' = num_rtx_assoc_packets + 1
                ELSE /\ recv_l' = [recv_l EXCEPT !.drop = TRUE]
                     /\ UNCHANGED << ssrc2_ssrc1_map, seqnum_ssrc1_map,
                                     num_rtx_assoc_packets >>
  \* the history of the masters: the association made at line 552 is made
  \* with the SSRC that the request named
  /\ assoc_masters' =
       IF recv_l.is_rtx /\ recv_l.buffer.ssrc \notin DOMAIN ssrc2_ssrc1_map
          /\ recv_l.orign_seqnum \in DOMAIN seqnum_ssrc1_map
       THEN assoc_masters \cup { seqnum_ssrc1_map[recv_l.orign_seqnum] }
       ELSE assoc_masters
  /\ UNCHANGED << recv_rtx_pt_map, recv_pending_rtx_pt_map,
                  recv_rtx_pt_map_changed, recv_num_rtx_requests,
                  recv_srcpad, recv_event_res, recv_n_chain, svars, lk, env >>

\* the end of gst_rtp_rtx_receive_chain, lock released: the packet is
\* dropped, or the packet rebuilt from it is pushed, or the packet itself.
\* Rebuilding from a payload of less than two bytes allocates and copies
\* rtp->size[2] - 2 bytes, a guint close to 2^32: the process dies, or a
\* packet of memory never written is pushed.
RecvChainPush ==
  /\ recv_pc = "associated"
  /\ IF recv_l.drop
     THEN /\ recv_srcpad' = Pushed(0, "drop", NoBuffer)
          /\ recv_pc' = "idle"
     ELSE IF ~recv_l.is_rtx
     THEN /\ recv_srcpad' = Pushed(1, "buffer", recv_l.buffer)
          /\ recv_pc' = "idle"
     ELSE IF Len(recv_l.buffer.payload) < 2
     THEN \/ /\ recv_pc' = "abort"
             /\ UNCHANGED recv_srcpad
          \/ \E b \in env.garbage :
               /\ recv_srcpad' = Pushed(1, "rtx",
                    gst_rtp_buffer_set_payload_type(
                      [recv_l.buffer EXCEPT !.ssrc = recv_l.ssrc1,
                                            !.seq = recv_l.orign_seqnum,
                                            !.payload = << b >>],
                      recv_l.origin_payload_type))
               /\ recv_pc' = "idle"
     ELSE \E new_buffer \in
            gst_rtp_buffer_new_from_rtx(recv_l.buffer, recv_l.ssrc1,
                                        recv_l.orign_seqnum,
                                        recv_l.origin_payload_type) :
            /\ recv_srcpad' = Pushed(1, "rtx", new_buffer)
            /\ recv_pc' = "idle"
  /\ recv_l' = IF recv_pc' = "abort" THEN recv_l ELSE NoLocals
  /\ UNCHANGED << ssrc2_ssrc1_map, seqnum_ssrc1_map, recv_rtx_pt_map,
                  recv_pending_rtx_pt_map, recv_rtx_pt_map_changed,
                  recv_num_rtx_requests, recv_num_rtx_packets,
                  num_rtx_assoc_packets, recv_event_res, recv_n_chain,
                  assoc_masters, svars, lk, env >>

\* RecvRetransmissionRequest with a conflicting request stored over the
\* entry it conflicts with
RecvRequestOverwrites(seqnum, ssrc) ==
  /\ recv_pc # "abort"
  /\ recv_num_rtx_requests < MaxRecvRequests
  /\ recv_num_rtx_requests' = recv_num_rtx_requests + 1
  /\ seqnum_ssrc1_map' = Put(seqnum_ssrc1_map, seqnum, ssrc)
  /\ recv_event_res' = RecvEventRes("request_new", "forwarded", seqnum, ssrc)
  /\ UNCHANGED << ssrc2_ssrc1_map, recv_rtx_pt_map, recv_pending_rtx_pt_map,
                  recv_rtx_pt_map_changed, recv_num_rtx_packets,
                  num_rtx_assoc_packets, recv_pc, recv_l, recv_srcpad,
                  recv_n_chain,
                  assoc_masters, svars, lk, env >>

\* RecvRetransmissionRequest without the lookup in ssrc2_ssrc1_map: the
\* request of an associated master is stored like any other
RecvRequestStoresAssociated(seqnum, ssrc) ==
  /\ recv_pc # "abort"
  /\ recv_num_rtx_requests < MaxRecvRequests
  /\ recv_num_rtx_requests' = recv_num_rtx_requests + 1
  /\ IF seqnum \in DOMAIN seqnum_ssrc1_map
     THEN IF seqnum_ssrc1_map[seqnum] = ssrc
          THEN /\ UNCHANGED seqnum_ssrc1_map
               /\ recv_event_res' =
                    RecvEventRes("request_duplicate", "forwarded", seqnum,
                                 ssrc)
          ELSE /\ seqnum_ssrc1_map' = Del(seqnum_ssrc1_map, seqnum)
               /\ recv_event_res' =
                    RecvEventRes("request_reject", "consumed", seqnum, ssrc)
     ELSE /\ seqnum_ssrc1_map' = Put(seqnum_ssrc1_map, seqnum, ssrc)
          /\ recv_event_res' =
               RecvEventRes("request_new", "forwarded", seqnum, ssrc)
  /\ UNCHANGED << ssrc2_ssrc1_map, recv_rtx_pt_map, recv_pending_rtx_pt_map,
                  recv_rtx_pt_map_changed, recv_num_rtx_packets,
                  num_rtx_assoc_packets, recv_pc, recv_l, recv_srcpad,
                  recv_n_chain,
                  assoc_masters, svars, lk, env >>

\* gst_rtp_rtx_receive_src_event, GstRTPRetransmissionRequest
RecvRetransmissionRequest(seqnum, ssrc) ==
  /\ recv_pc # "abort"
  /\ recv_num_rtx_requests < MaxRecvRequests
  /\ recv_num_rtx_requests' = recv_num_rtx_requests + 1
  /\ IF ssrc \in DOMAIN ssrc2_ssrc1_map /\ ssrc2_ssrc1_map[ssrc] # ssrc
     THEN /\ UNCHANGED seqnum_ssrc1_map
          /\ recv_event_res' =
               RecvEventRes("request_associated", "forwarded", seqnum, ssrc)
     ELSE IF seqnum \in DOMAIN seqnum_ssrc1_map
     THEN IF seqnum_ssrc1_map[seqnum] = ssrc
          THEN /\ UNCHANGED seqnum_ssrc1_map
               /\ recv_event_res' =
                    RecvEventRes("request_duplicate", "forwarded", seqnum,
                                 ssrc)
          ELSE /\ seqnum_ssrc1_map' = Del(seqnum_ssrc1_map, seqnum)
               /\ recv_event_res' =
                    RecvEventRes("request_reject", "consumed", seqnum, ssrc)
     ELSE /\ seqnum_ssrc1_map' = Put(seqnum_ssrc1_map, seqnum, ssrc)
          /\ recv_event_res' =
               RecvEventRes("request_new", "forwarded", seqnum, ssrc)
  /\ UNCHANGED << ssrc2_ssrc1_map, recv_rtx_pt_map, recv_pending_rtx_pt_map,
                  recv_rtx_pt_map_changed, recv_num_rtx_packets,
                  num_rtx_assoc_packets, recv_pc, recv_l, recv_srcpad,
                  recv_n_chain,
                  assoc_masters, svars, lk, env >>

\* gst_rtp_rtx_receive_set_property, PROP_PAYLOAD_TYPE_MAP
RecvSetPayloadTypeMap(value) ==
  /\ recv_pc # "abort"
  /\ recv_pending_rtx_pt_map' = value
  /\ recv_rtx_pt_map_changed' = TRUE
  /\ UNCHANGED << ssrc2_ssrc1_map, seqnum_ssrc1_map, recv_rtx_pt_map,
                  recv_num_rtx_requests, recv_num_rtx_packets,
                  num_rtx_assoc_packets, recv_pc, recv_l, recv_srcpad,
                  recv_event_res, recv_n_chain,
                  assoc_masters, svars, lk, env >>

\* gst_rtp_rtx_receive_reset
RecvReset ==
  /\ recv_pc # "abort"
  /\ ssrc2_ssrc1_map' = EmptyMap
  /\ seqnum_ssrc1_map' = EmptyMap
  /\ recv_num_rtx_requests' = 0
  /\ recv_num_rtx_packets' = 0
  /\ num_rtx_assoc_packets' = 0
  /\ assoc_masters' = {}
  /\ UNCHANGED << recv_rtx_pt_map, recv_pending_rtx_pt_map,
                  recv_rtx_pt_map_changed, recv_pc, recv_l, recv_srcpad,
                  recv_event_res, recv_n_chain, svars, lk, env >>

\* ------------------------------------------------------ the specification
Chain ==
  \E ssrc \in env.masters, seq \in env.seqs, pt \in env.pts,
     ts \in env.timestamps, body \in env.bodies :
    ChainLock(RtpBuffer(ssrc, seq, pt, ts, body))

Request == \E seqnum \in env.req_seqs, ssrc \in env.ssrcs :
             RetransmissionRequest(seqnum, ssrc)

CollisionEvent == \E ssrc \in env.ssrcs : Collision(ssrc)

CapsEvent == \E ssrc \in env.masters : CapsGetSsrcData(ssrc)

CapsField ==
  \E has \in BOOLEAN, rate \in env.clock_rates : CapsClockRate(has, rate)

SetProperty ==
  \/ \E v \in env.ssrc_maps : SetSsrcMap(v)
  \/ \E v \in env.pt_maps : SetPayloadTypeMap(v)
  \/ \E v \in env.size_time : SetMaxSizeTime(v)
  \/ \E v \in env.size_packets : SetMaxSizePackets(v)

RecvChain ==
  \E ssrc \in env.masters, seq \in env.seqs, pt \in env.pts,
     ts \in env.timestamps, body \in env.bodies :
    RecvChainClassify(RtpBuffer(ssrc, seq, pt, ts, body))

RecvRequest == \E seqnum \in env.req_seqs, ssrc \in env.ssrcs :
                 RecvRetransmissionRequest(seqnum, ssrc)

RecvSetProperty == \E v \in env.pt_maps : RecvSetPayloadTypeMap(v)

NextRecv ==
  \/ RecvChain
  \/ RecvChainAssociate
  \/ RecvChainPush
  \/ RecvRequest
  \/ RecvSetProperty
  \/ RecvReset

Next ==
  \/ Chain
  \/ DoPushGetSsrcData
  \/ InsertSsrcData
  \/ InsertRtxSsrc
  \/ BufferNew
  \/ PushRtx
  \/ PushBuffer
  \/ Request
  \/ CollisionEvent
  \/ CapsEvent
  \/ CapsField
  \/ SetProperty
  \/ Reset

\* two masters: allocation of rtx ssrcs, collisions
SsrcEnv ==
  [max_requests |-> MaxRequests,
   ssrcs |-> {1, 2, 3, 4}, rand_ssrcs |-> {3, 4}, masters |-> {1, 2},
   seqs |-> {1}, req_seqs |-> {1}, timestamps |-> {0}, pts |-> {96},
   rand_seqnums |-> {G_MAXUINT16 - 1}, clock_rates |-> {0},
   size_packets |-> {DEFAULT_MAX_SIZE_PACKETS},
   size_time |-> {DEFAULT_MAX_SIZE_TIME},
   pt_maps |-> { [k \in {"96"} |-> 97] },
   ssrc_maps |-> { [k \in {"1", "2"} |-> IF k = "1" THEN 3 ELSE 4] },
   bodies |-> {PlainBody}]

\* one master: history, requests, eviction by count, rotation of its rtx
\* ssrc; packets in any order
CountEnv ==
  [max_requests |-> MaxRequests,
   ssrcs |-> {1, 2, 3}, rand_ssrcs |-> {1, 2, 3}, masters |-> {1},
   seqs |-> {1, 2}, req_seqs |-> {1, 2, SeqMod + 2}, timestamps |-> {0},
   pts |-> {96}, rand_seqnums |-> {G_MAXUINT16 - 1},
   clock_rates |-> {1000}, size_packets |-> {1},
   size_time |-> {DEFAULT_MAX_SIZE_TIME},
   pt_maps |-> { [k \in {"96"} |-> 97] },
   ssrc_maps |-> { [k \in {"1"} |-> 2] },
   bodies |-> {PlainBody}]

\* one master: eviction by time; timestamps, clock rates and max-size-time
TimeEnv ==
  [max_requests |-> MaxRequests,
   ssrcs |-> {1, 2}, rand_ssrcs |-> {2, 3}, masters |-> {1}, seqs |-> {1, 2},
   req_seqs |-> {1}, timestamps |-> {TsMod - 1000, 3000}, pts |-> {96},
   rand_seqnums |-> {0}, clock_rates |-> {1000, 3000},
   size_packets |-> {DEFAULT_MAX_SIZE_PACKETS},
   size_time |-> {2000},
   pt_maps |-> { [k \in {"96"} |-> 97] },
   ssrc_maps |-> { [k \in {"1"} |-> 2] },
   bodies |-> {PlainBody}]

\* one master: the RTX packet built from packets with and without
\* extension and padding, under payload type maps with a value of 96 or
\* more, a value below 96, a value of more than 8 bits and no value
BuildEnv ==
  [max_requests |-> MaxRequests,
   ssrcs |-> {1, 2}, rand_ssrcs |-> {2, 3}, masters |-> {1}, seqs |-> {258},
   req_seqs |-> {258}, timestamps |-> {0}, pts |-> {96, 100},
   rand_seqnums |-> {7}, clock_rates |-> {0},
   size_packets |-> {DEFAULT_MAX_SIZE_PACKETS},
   size_time |-> {DEFAULT_MAX_SIZE_TIME},
   pt_maps |-> { [k \in {"96", "100"} |-> IF k = "96" THEN 97 ELSE 5],
                 [k \in {"100"} |-> 200] },
   ssrc_maps |-> { [k \in {"1"} |-> 2] },
   bodies |-> {PlainBody, PaddedBody}]

\* g_mutex_init: nobody holds rtx->lock, no thread is in a handler
LockOff == [core |-> "none", holder |-> "none", at |-> EmptyMap]

InitSsrc ==
  gst_rtp_rtx_send_init /\ gst_rtp_rtx_receive_init /\ lk = LockOff
  /\ env = SsrcEnv

InitCount ==
  gst_rtp_rtx_send_init /\ gst_rtp_rtx_receive_init /\ lk = LockOff
  /\ env = CountEnv

InitTime ==
  gst_rtp_rtx_send_init /\ gst_rtp_rtx_receive_init /\ lk = LockOff
  /\ env = TimeEnv

SpecSsrc == InitSsrc /\ [][Next]_vars

SpecCount == InitCount /\ [][Next]_vars

SpecTime == InitTime /\ [][Next]_vars

\* an RTX packet with OSN 1
Osn1Body == [ext |-> <<>>, payload |-> <<0, 1, 7>>, padding |-> <<>>]

\* an RTX packet with OSN 2, a header extension and two bytes of padding
Osn2Body == [ext |-> <<9>>, payload |-> <<0, 2>>, padding |-> <<0, 2>>]

\* a packet with a payload of one byte
ShortBody == [ext |-> <<>>, payload |-> <<0>>, padding |-> <<>>]

\* the receiver: requests of two masters, packets of a master and of two
\* other SSRCs with both payload types, the map set either way round
RecvEnv ==
  [ssrcs |-> {1, 2}, masters |-> {1, 3, 4}, seqs |-> {0},
   req_seqs |-> {1, 2}, timestamps |-> {0}, pts |-> {96, 97},
   pt_maps |-> { [k \in {"96"} |-> 97], [k \in {"97"} |-> 96] },
   bodies |-> {Osn1Body, Osn2Body, ShortBody},
   garbage |-> {1, 5}]

InitRecv ==
  gst_rtp_rtx_send_init /\ gst_rtp_rtx_receive_init /\ lk = LockOff
  /\ env = RecvEnv

SpecRecv == InitRecv /\ [][NextRecv]_vars

InitBuild ==
  gst_rtp_rtx_send_init /\ gst_rtp_rtx_receive_init /\ lk = LockOff
  /\ env = BuildEnv

SpecBuild == InitBuild /\ [][Next]_vars

\* ------------------------------------------- sender and receiver in a row
\* a packet with a header extension and a payload, without padding
ExtBody == [ext |-> <<9>>, payload |-> <<7, 8>>, padding |-> <<>>]

\* the srcpad of the sender is linked to the sinkpad of the receiver, both
\* with payload-type-map {96: 97}; requests name the master or another SSRC
RoundTripEnv ==
  [max_requests |-> MaxRequests,
   ssrcs |-> {1, 2}, rand_ssrcs |-> {3}, masters |-> {1}, seqs |-> {258},
   req_seqs |-> {258}, timestamps |-> {5}, pts |-> {96},
   rand_seqnums |-> {7},
   pt_maps |-> { [k \in {"96"} |-> 97] },
   bodies |-> {PlainBody, ExtBody, PaddedBody},
   garbage |-> {1}]

\* gst_pad_push calls the chain function of the peer pad: the receiver's
\* chain runs on the packet that the sender has pushed last
Linked ==
  /\ srcpad.push \in {"rtx", "buffer"}
  /\ RecvChainClassify(srcpad.buffer)

\* the streaming thread of the sender goes on when the chain function of
\* the peer has returned
LinkedChain == recv_pc = "idle" /\ Chain

LinkedDoPushGetSsrcData == recv_pc = "idle" /\ DoPushGetSsrcData

LinkedBufferNew == recv_pc = "idle" /\ BufferNew

LinkedPushRtx == recv_pc = "idle" /\ PushRtx

LinkedPushBuffer == recv_pc = "idle" /\ PushBuffer

SetPtMap == \E v \in env.pt_maps : SetPayloadTypeMap(v)

NextRoundTrip ==
  \/ LinkedChain
  \/ LinkedDoPushGetSsrcData
  \/ LinkedBufferNew
  \/ LinkedPushRtx
  \/ LinkedPushBuffer
  \/ Request
  \/ SetPtMap
  \/ Linked
  \/ RecvChainAssociate
  \/ RecvChainPush
  \/ RecvRequest
  \/ RecvSetProperty

InitRoundTrip ==
  gst_rtp_rtx_send_init /\ gst_rtp_rtx_receive_init /\ lk = LockOff
  /\ env = RoundTripEnv

SpecRoundTrip == InitRoundTrip /\ [][NextRoundTrip]_vars

\* ------------------------------------------------- the mutex rtx->lock
\* What each handler does with rtx->lock, with the fields of the element
\* and with its pads, one operation after the other on each of its paths.
g_mutex_lock == [op |-> "lock", x |-> "rtx->lock"]

g_mutex_unlock == [op |-> "unlock", x |-> "rtx->lock"]

gst_pad_push == [op |-> "push", x |-> "rtx->srcpad"]

gst_pad_event_default == [op |-> "forward", x |-> "event"]

Write(x) == [op |-> "write", x |-> x]

Read(x) == [op |-> "read", x |-> x]

Handler(fn, paths) == { [fn |-> fn, ops |-> p] : p \in paths }

\* do_push: _gst_rtp_rtx_buffer_new looks the entry up, creating it when it
\* is not there, takes its next_seqnum and increments it; the packet is
\* pushed
do_push_paths ==
  { << Read("ssrc_data"), Write("next_seqnum"), Read("rtx_pt_map"),
       gst_pad_push >>,
    << Read("ssrc_data"), Write("ssrc_data"), Write("rtx_ssrcs"),
       Write("next_seqnum"), Read("rtx_pt_map"), gst_pad_push >> }

\* gst_rtp_rtx_send_chain: a packet whose payload type is not in the map;
\* a packet that is stored after the map has been refreshed; a packet that
\* is stored while a request is pending
gst_rtp_rtx_send_chain_paths ==
  { << g_mutex_lock, Read("rtx_pt_map"), g_mutex_unlock, gst_pad_push >>,
    << g_mutex_lock, Write("rtx_pt_map"), Write("rtx_pt_map_changed"),
       Write("ssrc_data"), Write("rtx_ssrcs"), Write("queue"),
       g_mutex_unlock, gst_pad_push >> }
  \cup
  { << g_mutex_lock, Write("queue"), Write("pending"),
       Write("num_rtx_packets"), g_mutex_unlock >> \o p \o << gst_pad_push >> :
      p \in do_push_paths }

\* gst_rtp_rtx_send_sink_event: caps of an SSRC without entry, caps of an
\* SSRC with an entry, any other event
gst_rtp_rtx_send_sink_event_paths ==
  { << Read("ssrc_data"), Write("ssrc_data"), Write("rtx_ssrcs"),
       Write("clock_rate"), gst_pad_event_default >>,
    << Read("ssrc_data"), Write("clock_rate"), gst_pad_event_default >>,
    << gst_pad_event_default >> }

\* gst_rtp_rtx_send_src_event: a request of an unknown SSRC, a request that
\* finds its packet, a collision on an rtx ssrc, a collision on a master
\* ssrc, any other event
gst_rtp_rtx_send_src_event_paths ==
  { << g_mutex_lock, Read("ssrc_data"), g_mutex_unlock >>,
    << g_mutex_lock, Write("num_rtx_requests"), Read("queue"),
       Write("pending"), g_mutex_unlock >>,
    << g_mutex_lock, Write("rtx_ssrc"), Write("rtx_ssrcs"),
       g_mutex_unlock >>,
    << g_mutex_lock, Write("rtx_ssrcs"), Write("ssrc_data"),
       g_mutex_unlock, gst_pad_event_default >>,
    << gst_pad_event_default >> }

gst_rtp_rtx_send_set_property_paths ==
  { << g_mutex_lock, Write("external_ssrc_map"), g_mutex_unlock >>,
    << g_mutex_lock, Write("pending_rtx_pt_map"),
       Write("rtx_pt_map_changed"), g_mutex_unlock >>,
    << g_mutex_lock, Write("max_size_time"), g_mutex_unlock >>,
    << g_mutex_lock, Write("max_size_packets"), g_mutex_unlock >> }

gst_rtp_rtx_send_get_property_paths ==
  { << g_mutex_lock, Read("num_rtx_packets"), g_mutex_unlock >> }

gst_rtp_rtx_send_reset_paths ==
  { << g_mutex_lock, Write("pending"), Write("ssrc_data"),
       Write("rtx_ssrcs"), Write("num_rtx_requests"),
       Write("num_rtx_packets"), g_mutex_unlock >> }

\* gst_rtp_rtx_receive_chain: a master packet after a change of the map; an
\* RTX packet that is associated and rebuilt; an RTX packet that is dropped
gst_rtp_rtx_receive_chain_paths ==
  { << g_mutex_lock, Write("rtx_pt_map"), Write("rtx_pt_map_changed"),
       g_mutex_unlock, g_mutex_lock, g_mutex_unlock, gst_pad_push >>,
    << g_mutex_lock, Read("rtx_pt_map"), g_mutex_unlock, Read("rtx_pt_map"),
       g_mutex_lock, Write("num_rtx_packets"), Write("seqnum_ssrc1_map"),
       Write("ssrc2_ssrc1_map"), Write("num_rtx_assoc_packets"),
       g_mutex_unlock, gst_pad_push >>,
    << g_mutex_lock, Read("rtx_pt_map"), g_mutex_unlock, Read("rtx_pt_map"),
       g_mutex_lock, Write("num_rtx_packets"), g_mutex_unlock >> }

\* gst_rtp_rtx_receive_src_event with the rejected request returning
\* without g_mutex_unlock
gst_rtp_rtx_receive_src_event_paths_no_unlock ==
  { << g_mutex_lock, Write("num_rtx_requests"), Write("seqnum_ssrc1_map"),
       g_mutex_unlock, gst_pad_event_default >>,
    << g_mutex_lock, Write("num_rtx_requests"), Write("seqnum_ssrc1_map") >>,
    << gst_pad_event_default >> }

\* gst_rtp_rtx_receive_src_event: a request that is new, of an associated
\* master or a duplicate (forwarded); a request that is rejected (consumed);
\* any other event
gst_rtp_rtx_receive_src_event_paths ==
  { << g_mutex_lock, Write("num_rtx_requests"), Write("seqnum_ssrc1_map"),
       g_mutex_unlock, gst_pad_event_default >>,
    << g_mutex_lock, Write("num_rtx_requests"), Read("seqnum_ssrc1_map"),
       g_mutex_unlock, gst_pad_event_default >>,
    << g_mutex_lock, Write("num_rtx_requests"), Write("seqnum_ssrc1_map"),
       g_mutex_unlock >>,
    << gst_pad_event_default >> }

gst_rtp_rtx_receive_set_property_paths ==
  { << g_mutex_lock, Write("pending_rtx_pt_map"),
       Write("rtx_pt_map_changed"), g_mutex_unlock >> }

gst_rtp_rtx_receive_get_property_paths ==
  { << g_mutex_lock, Read("num_rtx_assoc_packets"), g_mutex_unlock >> }

gst_rtp_rtx_receive_reset_paths ==
  { << g_mutex_lock, Write("ssrc2_ssrc1_map"), Write("seqnum_ssrc1_map"),
       Write("num_rtx_requests"), Write("num_rtx_packets"),
       Write("num_rtx_assoc_packets"), g_mutex_unlock >> }

\* the threads of an element: the streaming thread (chain and the events
\* of the sinkpad), the thread of the upstream events, and the application
\* (properties, state changes)
Threads == {"streaming", "upstream", "application"}

\* the handlers that a thread of an element runs
Handlers(core, t) ==
  IF core = "send"
  THEN CASE t = "streaming" ->
              Handler("chain", gst_rtp_rtx_send_chain_paths)
              \cup Handler("sink_event", gst_rtp_rtx_send_sink_event_paths)
         [] t = "upstream" ->
              Handler("src_event", gst_rtp_rtx_send_src_event_paths)
         [] OTHER ->
              Handler("set_property", gst_rtp_rtx_send_set_property_paths)
              \cup Handler("get_property",
                           gst_rtp_rtx_send_get_property_paths)
              \cup Handler("reset", gst_rtp_rtx_send_reset_paths)
  ELSE CASE t = "streaming" ->
              Handler("chain", gst_rtp_rtx_receive_chain_paths)
         [] t = "upstream" ->
              Handler("src_event", gst_rtp_rtx_receive_src_event_paths)
         [] OTHER ->
              Handler("set_property", gst_rtp_rtx_receive_set_property_paths)
              \cup Handler("get_property",
                           gst_rtp_rtx_receive_get_property_paths)
              \cup Handler("reset", gst_rtp_rtx_receive_reset_paths)

\* a thread that is in no handler
NotRunning == [fn |-> "none", ops |-> << >>, i |-> 1]

\* g_mutex_init of the element core, no thread in a handler
LockInit(core) ==
  [core |-> core, holder |-> "none", at |-> [t \in Threads |-> NotRunning]]

\* a thread enters a handler
HandlerCall ==
  /\ \E t \in Threads :
       /\ lk.at[t] = NotRunning
       /\ \E h \in Handlers(lk.core, t) :
            lk' = [lk EXCEPT !.at[t] = [fn |-> h.fn, ops |-> h.ops, i |-> 1]]
  /\ UNCHANGED << svars, rvars, env >>

\* a thread does the next operation of its handler: g_mutex_lock waits
\* until nobody holds the mutex
HandlerStep ==
  /\ \E t \in Threads :
       LET a == lk.at[t] IN
       /\ a.i <= Len(a.ops)
       /\ a.ops[a.i].op = "lock" => lk.holder = "none"
       /\ lk' = [lk EXCEPT !.at[t].i = a.i + 1,
                           !.holder = CASE a.ops[a.i].op = "lock" -> t
                                        [] a.ops[a.i].op = "unlock" -> "none"
                                        [] OTHER -> lk.holder]
  /\ UNCHANGED << svars, rvars, env >>

\* the handler returns
HandlerReturn ==
  /\ \E t \in Threads :
       /\ lk.at[t] # NotRunning
       /\ lk.at[t].i > Len(lk.at[t].ops)
       /\ lk' = [lk EXCEPT !.at[t] = NotRunning]
  /\ UNCHANGED << svars, rvars, env >>

NextLock ==
  \/ HandlerCall
  \/ HandlerStep
  \/ HandlerReturn

InitLock ==
  /\ gst_rtp_rtx_send_init /\ gst_rtp_rtx_receive_init
  /\ env = CountEnv
  /\ lk \in { LockInit(core) : core \in {"send", "recv"} }

SpecLock == InitLock /\ [][NextLock]_vars

\* ------------------------------------------------- one element or the other
\* the element looked at is an rtprtxsend or an rtprtxreceive
SendCore == env = BuildEnv

RecvCore == env = RecvEnv

SendNext == SendCore /\ Next

RecvNext == RecvCore /\ NextRecv

NextCores ==
  \/ SendNext
  \/ RecvNext

InitCores ==
  gst_rtp_rtx_send_init /\ gst_rtp_rtx_receive_init /\ lk = LockOff
  /\ env \in {BuildEnv, RecvEnv}

SpecCores == InitCores /\ [][NextCores]_vars

\* a master whose packets are requested twice and another master; entries
\* start at the highest sequence number drawn
SeqEnv ==
  [max_requests |-> MaxSeqRequests,
   ssrcs |-> {1, 2}, rand_ssrcs |-> {3, 4}, masters |-> {1, 2},
   seqs |-> {1, 2}, req_seqs |-> {1, 2}, timestamps |-> {0}, pts |-> {96},
   rand_seqnums |-> {G_MAXUINT16 - 1},
   pt_maps |-> { [k \in {"96"} |-> 97] },
   bodies |-> {PlainBody}]

NextSeq ==
  \/ Chain
  \/ DoPushGetSsrcData
  \/ InsertSsrcData
  \/ InsertRtxSsrc
  \/ BufferNew
  \/ PushRtx
  \/ PushBuffer
  \/ Request
  \/ CollisionEvent
  \/ SetPtMap
  \/ Reset

InitSeq ==
  gst_rtp_rtx_send_init /\ gst_rtp_rtx_receive_init /\ lk = LockOff
  /\ env = SeqEnv

SpecSeq == InitSeq /\ [][NextSeq]_vars

\* ---------------------------------------------------------------- claims
\* the sequence numbers held in the history of master ssrc
HistorySeqnums(ssrc) ==
  { ssrc_data[ssrc].queue[i].seqnum : i \in 1..Len(ssrc_data[ssrc].queue) }

\* rtx is a retransmission packet of buffer: its payload is the sequence
\* number of buffer, big endian, followed by the payload of buffer
IsRtxOf(rtx, buffer) ==
  /\ Len(rtx.payload) = Len(buffer.payload) + 2
  /\ rtx.payload[1] * 256 + rtx.payload[2] = buffer.seq
  /\ SubSeq(rtx.payload, 3, Len(rtx.payload)) = buffer.payload

\* C1: a chain call detaches the whole pending queue (the requests matched
\* before the call), pushes one RTX packet for each of its buffers, in
\* order, and only then pushes the ingested buffer, once, which ends the
\* call; nothing else is pushed.
C1_EgressOrder ==
  [][ /\ (l_fn # "chain" /\ l_fn' = "chain") =>
           /\ l_pending' = pending
           /\ pending' = <<>>
           /\ srcpad'.n = 0
      /\ (l_fn = "chain" /\ l_fn' = "chain") =>
           /\ l_pending' = l_pending
           /\ l_buffer' = l_buffer
      /\ (srcpad' # srcpad /\ srcpad'.n # 0) =>
           /\ l_fn = "chain"
           /\ srcpad'.n = srcpad.n + 1
           /\ IF srcpad.n < Len(l_pending)
              THEN /\ srcpad'.push = "rtx"
                   /\ IsRtxOf(srcpad'.buffer, l_pending[srcpad.n + 1])
                   /\ l_fn' = "chain"
              ELSE /\ srcpad'.push = "buffer"
                   /\ srcpad'.buffer = l_buffer
                   /\ l_fn' = "none"
      /\ (l_fn = "chain" /\ l_fn' # "chain") =>
           /\ srcpad'.push = "buffer"
           /\ srcpad'.n = Len(l_pending) + 1
    ]_vars

\* C1 witness: ingress 1, request 1, ingress 2 has pushed RTX(OSN = 1) and
\* then packet 2, which ended the second call.
C1_Witness ==
  /\ l_fn = "none"
  /\ pc = "idle"
  /\ n_chain = 2
  /\ num_rtx_requests = 1
  /\ num_rtx_packets = 1
  /\ srcpad.n = 2
  /\ srcpad.push = "buffer"
  /\ srcpad.buffer.seq = 2
  /\ 1 \in DOMAIN ssrc_data
  /\ Len(ssrc_data[1].queue) = 2
  /\ ssrc_data[1].queue[1].seqnum = 1
  /\ ssrc_data[1].queue[2].seqnum = 2

\* C2: a request for a known SSRC and a sequence number held in its history
\* adds one to num_rtx_requests, appends the buffer with that sequence
\* number to the tail of pending and is consumed.
C2_RequestFound ==
  [][ \A seqnum \in env.req_seqs, ssrc \in env.ssrcs :
        ( /\ RetransmissionRequest(seqnum, ssrc)
          /\ ssrc \in DOMAIN ssrc_data
          /\ seqnum \in HistorySeqnums(ssrc) ) =>
        /\ num_rtx_requests' = num_rtx_requests + 1
        /\ Len(pending') = Len(pending) + 1
        /\ SubSeq(pending', 1, Len(pending)) = pending
        /\ pending'[Len(pending')].seq = seqnum
        /\ pending'[Len(pending')].ssrc = ssrc
        /\ event_res'.res = "consumed"
    ]_vars

\* C3: with max_size_packets = N > 0 and no bound by time, the ingress of a
\* packet with a mapped payload type leaves in the history of its SSRC the
\* last N packets ingested (the older ones leave first, the new one stays);
\* a request for a sequence number that is no longer held queues nothing
\* and a request for one that is held queues one retransmission.
C3_EvictionByCount ==
  [][ /\ \A ssrc \in env.masters, seq \in env.seqs, pt \in env.pts,
            ts \in env.timestamps, body \in env.bodies :
           LET buffer == RtpBuffer(ssrc, seq, pt, ts, body)
               old == IF ssrc \in DOMAIN ssrc_data
                      THEN ssrc_data[ssrc].queue ELSE <<>>
               all == Append(old, [seqnum |-> seq, timestamp |-> ts,
                                   buffer |-> buffer])
               keep == IF Len(all) > max_size_packets
                       THEN max_size_packets ELSE Len(all)
           IN ( /\ ChainLock(buffer)
                /\ pt \in DOMAIN rtx_pt_map'
                /\ max_size_packets > 0
                /\ max_size_time = 0 ) =>
              ssrc_data'[ssrc].queue =
                SubSeq(all, Len(all) - keep + 1, Len(all))
      /\ \A seqnum \in env.req_seqs, ssrc \in env.ssrcs :
           ( /\ RetransmissionRequest(seqnum, ssrc)
             /\ ssrc \in DOMAIN ssrc_data
             /\ max_size_packets > 0
             /\ seqnum < SeqMod ) =>
           IF seqnum \in HistorySeqnums(ssrc)
           THEN /\ Len(pending') = Len(pending) + 1
                /\ pending'[Len(pending')].seq = seqnum
           ELSE pending' = pending
    ]_vars

\* the history of master ssrc in the map sd, empty without an entry
QueueOf(sd, ssrc) == IF ssrc \in DOMAIN sd THEN sd[ssrc].queue ELSE <<>>

CountBound(sd, ssrc, max) == max = 0 \/ Len(QueueOf(sd, ssrc)) <= max

\* C4 as claimed: in every state every history has at most max_size_packets
\* items when max_size_packets is not zero.
C4_CountBoundAlways ==
  \A ssrc \in DOMAIN ssrc_data :
    CountBound(ssrc_data, ssrc, max_size_packets)

\* C4 amended: every operation that changes the history of an SSRC leaves
\* it with at most max_size_packets items (when not zero), and no operation
\* that leaves max_size_packets alone takes a history over the bound.
C4_CountBoundAtIngress ==
  [][ \A ssrc \in DOMAIN ssrc_data' :
        /\ QueueOf(ssrc_data', ssrc) # QueueOf(ssrc_data, ssrc) =>
             CountBound(ssrc_data', ssrc, max_size_packets')
        /\ ( /\ max_size_packets' = max_size_packets
             /\ CountBound(ssrc_data, ssrc, max_size_packets) ) =>
             CountBound(ssrc_data', ssrc, max_size_packets')
    ]_vars

\* C4 witness: packet 1 was in the history when it was requested; the
\* ingress of packet 2 under max_size_packets = 1 has just evicted it.
C4_Witness ==
  /\ pc = "push"
  /\ event_res.branch = "request_found"
  /\ max_size_packets = 1
  /\ Len(l_pending) = 1
  /\ l_pending[1].seq = 1
  /\ l_buffer.seq = 2
  /\ 1 \in DOMAIN ssrc_data
  /\ Len(ssrc_data[1].queue) = 1
  /\ ssrc_data[1].queue[1].buffer = l_buffer

\* the span of a history in ms: ((last - first) mod 2^32) * 1000 / clock rate
SpanMs(data) ==
  LET first == data.queue[1].timestamp
      last == data.queue[Len(data.queue)].timestamp
  IN (((last - first + TsMod) % TsMod) * 1000) \div data.clock_rate

TimeBound(sd, ssrc, max) ==
  \/ max = 0
  \/ ssrc \notin DOMAIN sd
  \/ sd[ssrc].clock_rate <= 0
  \/ sd[ssrc].queue = <<>>
  \/ SpanMs(sd[ssrc]) % TsMod <= max

\* C5 as claimed: in every state the span of every history with a positive
\* clock rate is at most max_size_time when max_size_time is not zero.
C5_TimeBoundAlways ==
  \A ssrc \in DOMAIN ssrc_data :
    ( /\ max_size_time # 0
      /\ ssrc_data[ssrc].clock_rate > 0
      /\ ssrc_data[ssrc].queue # <<>> ) =>
    SpanMs(ssrc_data[ssrc]) <= max_size_time

\* C5 amended: every operation that changes the history of an SSRC with a
\* positive clock rate leaves its span (as a 32 bit value) at most
\* max_size_time (when not zero), and no operation that leaves
\* max_size_time and the clock rate of the SSRC alone takes a history over
\* the bound.
C5_TimeBoundAtIngress ==
  [][ \A ssrc \in DOMAIN ssrc_data' :
        /\ QueueOf(ssrc_data', ssrc) # QueueOf(ssrc_data, ssrc) =>
             TimeBound(ssrc_data', ssrc, max_size_time')
        /\ ( /\ max_size_time' = max_size_time
             /\ ssrc \in DOMAIN ssrc_data
             /\ ssrc_data'[ssrc].clock_rate = ssrc_data[ssrc].clock_rate
             /\ TimeBound(ssrc_data, ssrc, max_size_time) ) =>
             TimeBound(ssrc_data', ssrc, max_size_time')
    ]_vars

\* C5 witness: the packet with timestamp TsMod - 1000 was in the history
\* when it was requested; the ingress of the packet with timestamp 3000,
\* 4000 ms later at 1000 Hz, under max_size_time = 2000 has just evicted it.
C5_Witness ==
  /\ pc = "push"
  /\ event_res.branch = "request_found"
  /\ max_size_time = 2000
  /\ Len(l_pending) = 1
  /\ l_pending[1].timestamp = TsMod - 1000
  /\ l_buffer.timestamp = 3000
  /\ 1 \in DOMAIN ssrc_data
  /\ ssrc_data[1].clock_rate = 1000
  /\ Len(ssrc_data[1].queue) = 1
  /\ ssrc_data[1].queue[1].buffer = l_buffer

\* C6: whenever the streaming thread is in no handler (every other
\* handler is one locked step), rtx_ssrcs and the pairs
\* (m, ssrc_data[m].rtx_ssrc) are inverse maps.
C6_SsrcBijection ==
  l_fn = "none" =>
    /\ \A r \in DOMAIN rtx_ssrcs :
         /\ rtx_ssrcs[r] \in DOMAIN ssrc_data
         /\ ssrc_data[rtx_ssrcs[r]].rtx_ssrc = r
    /\ \A m \in DOMAIN ssrc_data :
         /\ ssrc_data[m].rtx_ssrc \in DOMAIN rtx_ssrcs
         /\ rtx_ssrcs[ssrc_data[m].rtx_ssrc] = m

\* C7: no master has itself as rtx ssrc and no SSRC is a key of both
\* ssrc_data and rtx_ssrcs.
C7_NoSsrcCollision ==
  /\ \A m \in DOMAIN ssrc_data : ssrc_data[m].rtx_ssrc # m
  /\ (DOMAIN ssrc_data) \cap (DOMAIN rtx_ssrcs) = {}

\* what a collision on R, the rtx ssrc of master M, does
RtxSsrcRotated(R) ==
  LET M == rtx_ssrcs[R] IN
  /\ M \in DOMAIN ssrc_data'
  /\ ssrc_data'[M].rtx_ssrc # R
  /\ R \notin DOMAIN rtx_ssrcs'
  /\ ssrc_data'[M].rtx_ssrc \in DOMAIN rtx_ssrcs'
  /\ rtx_ssrcs'[ssrc_data'[M].rtx_ssrc] = M
  /\ ssrc_data'[M].queue = ssrc_data[M].queue
  /\ ssrc_data'[M].clock_rate = ssrc_data[M].clock_rate
  /\ ssrc_data'[M].next_seqnum = ssrc_data[M].next_seqnum
  /\ event_res'.res = "consumed"

IsRtxSsrcOfMaster(R) ==
  /\ R \in DOMAIN rtx_ssrcs
  /\ rtx_ssrcs[R] \in DOMAIN ssrc_data
  /\ ssrc_data[rtx_ssrcs[R]].rtx_ssrc = R

\* C8 as claimed: a collision on the rtx ssrc R of master M gives M another
\* rtx ssrc, removes R from rtx_ssrcs and maps the new value to M, keeps
\* the history, the clock rate and the next RTX seqnum of M and is consumed;
\* every RTX packet pushed for a master that has an entry carries the rtx
\* ssrc the master has when the packet is pushed.
C8_RtxSsrcRotation ==
  [][ /\ \A R \in env.ssrcs :
           (Collision(R) /\ IsRtxSsrcOfMaster(R)) => RtxSsrcRotated(R)
      /\ (srcpad'.push = "rtx" /\ srcpad'.n = srcpad.n + 1) =>
           \A M \in DOMAIN ssrc_data :
             M = l_pending[l_iter].ssrc =>
             srcpad'.buffer.ssrc = ssrc_data[M].rtx_ssrc
    ]_vars

\* C8 amended: the same collision handling; every RTX packet that is built
\* for a master from its entry of ssrc_data carries the rtx ssrc the entry
\* has when the packet is built (the push follows later: a packet built
\* before the collision is pushed with R after it).
C8_RtxSsrcRotationAtBuild ==
  [][ /\ \A R \in env.ssrcs :
           (Collision(R) /\ IsRtxSsrcOfMaster(R)) => RtxSsrcRotated(R)
      /\ (pc = "have_data" /\ pc' = "pushrtx" /\ ~l_data.freed) =>
           \A M \in DOMAIN ssrc_data :
             M = l_pending[l_iter].ssrc =>
             /\ l_rtx'.ssrc = ssrc_data[M].rtx_ssrc
             /\ ssrc_data'[M].rtx_ssrc = ssrc_data[M].rtx_ssrc
    ]_vars

\* C8 witness: the last upstream event rotated the rtx ssrc of master 1,
\* which holds a history and a clock rate, and the RTX packet just built
\* for master 1 carries the rtx ssrc master 1 has now.
C8_Witness ==
  /\ event_res.branch = "collision_rtx"
  /\ pc = "pushrtx"
  /\ l_pending[l_iter].ssrc = 1
  /\ 1 \in DOMAIN ssrc_data
  /\ l_rtx.ssrc = ssrc_data[1].rtx_ssrc
  /\ l_rtx.ssrc # 1
  /\ ssrc_data[1].clock_rate = 1000
  /\ ssrc_data[1].queue # <<>>
  /\ rtx_ssrcs = (ssrc_data[1].rtx_ssrc :> 1)

\* C9: a collision on an SSRC that is a key of ssrc_data and not of
\* rtx_ssrcs removes the entry of that master and its rtx ssrc, leaves the
\* other entries of both maps as they are and is forwarded upstream.
C9_MasterCollision ==
  [][ \A ssrc \in env.ssrcs :
        ( /\ Collision(ssrc)
          /\ ssrc \in DOMAIN ssrc_data
          /\ ssrc \notin DOMAIN rtx_ssrcs ) =>
        /\ DOMAIN ssrc_data' = (DOMAIN ssrc_data) \ {ssrc}
        /\ \A m \in DOMAIN ssrc_data' : ssrc_data'[m] = ssrc_data[m]
        /\ DOMAIN rtx_ssrcs' = (DOMAIN rtx_ssrcs) \ {ssrc_data[ssrc].rtx_ssrc}
        /\ \A r \in DOMAIN rtx_ssrcs' : rtx_ssrcs'[r] = rtx_ssrcs[r]
        /\ event_res'.res = "forwarded"
    ]_vars

\* C9 witness: two masters were ingested; the last upstream event was a
\* collision on one of them, and the other is left with its history and
\* its rtx ssrc.
C9_Witness ==
  /\ event_res.branch = "collision_master"
  /\ n_chain = 2
  /\ Cardinality(DOMAIN ssrc_data) = 1
  /\ \A m \in DOMAIN ssrc_data :
       /\ ssrc_data[m].queue # <<>>
       /\ rtx_ssrcs = (ssrc_data[m].rtx_ssrc :> m)

\* what a request leaves alone when it fails
RequestNoOp ==
  /\ pending' = pending
  /\ ssrc_data' = ssrc_data
  /\ rtx_ssrcs' = rtx_ssrcs
  /\ num_rtx_packets' = num_rtx_packets
  /\ event_res'.res = "consumed"

\* C10: a request for an unknown SSRC changes no map, queue or
\* counter; a request for a known SSRC whose seqnum is not in the history
\* only adds one to num_rtx_requests; both are consumed.
C10_RequestFailureNoOp ==
  [][ \A seqnum \in env.req_seqs, ssrc \in env.ssrcs :
        RetransmissionRequest(seqnum, ssrc) =>
        /\ ssrc \notin DOMAIN ssrc_data =>
             RequestNoOp /\ num_rtx_requests' = num_rtx_requests
        /\ (ssrc \in DOMAIN ssrc_data /\ seqnum \notin HistorySeqnums(ssrc)) =>
             RequestNoOp /\ num_rtx_requests' = num_rtx_requests + 1
    ]_vars

\* the payload type the RTX packet of a packet with payload type pt is to
\* carry: the value the live map gives pt, pt + 1 when there is none or it
\* is below 96
MappedRtxPt(pt) ==
  IF pt \in DOMAIN rtx_pt_map /\ rtx_pt_map[pt] >= MinDynamicPt
  THEN rtx_pt_map[pt] ELSE pt + 1

\* the same with the value taken as the guint8 the code holds it in
MappedRtxPt8(pt) ==
  LET fmtp == IF pt \in DOMAIN rtx_pt_map THEN rtx_pt_map[pt] % 256 ELSE 0
  IN IF fmtp >= MinDynamicPt THEN fmtp ELSE pt + 1

\* rtx has the extension of buffer, the sequence number of buffer and then
\* the payload of buffer as payload, no padding and no P bit
IsRtxBodyOf(rtx, buffer) ==
  /\ rtx.ext = buffer.ext
  /\ IsRtxOf(rtx, buffer)
  /\ rtx.padding = <<>>
  /\ rtx.p = FALSE

RecvAssociateStep == recv_pc = "classified" /\ recv_pc' = "associated"

RecvPushStep == recv_pc = "associated" /\ recv_pc' # "associated"

\* the packet in chain has an RTX payload type and a payload that holds
\* an OSN
RecvRtxPacket == recv_l.is_rtx /\ Len(recv_l.buffer.payload) >= 2

\* C12: an RTX packet with OSN q on an SSRC r that is not in the
\* association, while the request table maps q to m, associates r with m
\* and m with r, removes the entry of q and no other, adds one to
\* num_rtx_packets and to num_rtx_assoc_packets, and chain then pushes one
\* packet, rebuilt with SSRC m, sequence number q and the original payload
\* type.
C12_Association ==
  [][ /\ ( /\ RecvAssociateStep
           /\ RecvRtxPacket
           /\ recv_l.buffer.ssrc \notin DOMAIN ssrc2_ssrc1_map
           /\ recv_l.orign_seqnum \in DOMAIN seqnum_ssrc1_map ) =>
           LET r == recv_l.buffer.ssrc
               q == recv_l.orign_seqnum
               m == seqnum_ssrc1_map[q]
           IN /\ q = ReadUint16BE(recv_l.buffer.payload)
              /\ r \in DOMAIN ssrc2_ssrc1_map'
              /\ m \in DOMAIN ssrc2_ssrc1_map'
              /\ ssrc2_ssrc1_map'[r] = m
              /\ ssrc2_ssrc1_map'[m] = r
              /\ seqnum_ssrc1_map' = Del(seqnum_ssrc1_map, q)
              /\ recv_num_rtx_packets' = recv_num_rtx_packets + 1
              /\ num_rtx_assoc_packets' = num_rtx_assoc_packets + 1
              /\ recv_l'.ssrc1 = m
              /\ recv_l'.drop = FALSE
              /\ recv_l'.buffer = recv_l.buffer
      /\ (RecvPushStep /\ RecvRtxPacket /\ ~recv_l.drop) =>
           /\ recv_srcpad'.n = 1
           /\ recv_srcpad'.push = "rtx"
           /\ recv_srcpad'.buffer.ssrc = recv_l.ssrc1
           /\ recv_srcpad'.buffer.seq = ReadUint16BE(recv_l.buffer.payload)
           /\ recv_srcpad'.buffer.pt = recv_rtx_pt_map[recv_l.buffer.pt]
    ]_vars

\* C12 witness: after the request (1, master 1) the RTX packet with OSN 1 on
\* SSRC 3 has been pushed as packet 1 of SSRC 1 with payload type 96; 1 and
\* 3 are associated and the request table is empty.
C12_Witness ==
  /\ recv_pc = "idle"
  /\ recv_srcpad.push = "rtx"
  /\ recv_srcpad.buffer.ssrc = 1
  /\ recv_srcpad.buffer.seq = 1
  /\ recv_srcpad.buffer.pt = 96
  /\ recv_srcpad.buffer.payload = <<7>>
  /\ ssrc2_ssrc1_map = (1 :> 3) @@ (3 :> 1)
  /\ seqnum_ssrc1_map = EmptyMap
  /\ recv_num_rtx_requests = 1
  /\ recv_num_rtx_packets = 1
  /\ num_rtx_assoc_packets = 1

\* the master of a request has an RTX partner in the association
HasRtxPartner(ssrc) ==
  ssrc \in DOMAIN ssrc2_ssrc1_map /\ ssrc2_ssrc1_map[ssrc] # ssrc

\* C13: a request (q, c) that finds q in the request table with another
\* master, c having no RTX partner, is consumed and removes the entry of q,
\* which it does not replace; an RTX packet with OSN q on an SSRC that is
\* not associated, handled after it, is dropped: nothing is associated and
\* nothing is pushed.
C13_ConflictingRequest ==
  [][ /\ \A q \in env.req_seqs, c \in env.ssrcs :
           ( /\ RecvRetransmissionRequest(q, c)
             /\ q \in DOMAIN seqnum_ssrc1_map
             /\ seqnum_ssrc1_map[q] # c
             /\ ~HasRtxPartner(c) ) =>
           /\ recv_event_res'.res = "consumed"
           /\ seqnum_ssrc1_map' = Del(seqnum_ssrc1_map, q)
           /\ ssrc2_ssrc1_map' = ssrc2_ssrc1_map
      /\ ( /\ RecvAssociateStep
           /\ RecvRtxPacket
           /\ recv_event_res.branch = "request_reject"
           /\ recv_l.orign_seqnum = recv_event_res.seqnum
           /\ recv_l.buffer.ssrc \notin DOMAIN ssrc2_ssrc1_map ) =>
           /\ recv_l'.drop
           /\ ssrc2_ssrc1_map' = ssrc2_ssrc1_map
           /\ seqnum_ssrc1_map' = seqnum_ssrc1_map
      /\ (RecvPushStep /\ recv_l.drop) =>
           /\ recv_srcpad'.push = "drop"
           /\ recv_srcpad'.n = 0
    ]_vars

\* C13 witness: the last request was rejected, and the RTX packet that
\* carries its seqnum as OSN, on an SSRC that is not associated, has been
\* dropped in the locked section.
C13_Witness ==
  /\ recv_event_res.branch = "request_reject"
  /\ recv_event_res.res = "consumed"
  /\ recv_num_rtx_requests = 2
  /\ recv_pc = "associated"
  /\ RecvRtxPacket
  /\ recv_l.drop
  /\ recv_l.orign_seqnum = recv_event_res.seqnum
  /\ recv_l.buffer.ssrc \notin DOMAIN ssrc2_ssrc1_map
  /\ recv_event_res.seqnum \notin DOMAIN seqnum_ssrc1_map

\* C14: but for reset, no step removes or changes an entry of the
\* association: once r and m are associated they stay so.
C14_AssociationMonotone ==
  [][ \/ RecvReset
      \/ \A a \in DOMAIN ssrc2_ssrc1_map :
           /\ a \in DOMAIN ssrc2_ssrc1_map'
           /\ ssrc2_ssrc1_map'[a] = ssrc2_ssrc1_map[a]
    ]_vars

\* C15: the association is symmetric in every state.
C15_AssociationSymmetric ==
  \A a \in DOMAIN ssrc2_ssrc1_map :
    /\ ssrc2_ssrc1_map[a] \in DOMAIN ssrc2_ssrc1_map
    /\ ssrc2_ssrc1_map[ssrc2_ssrc1_map[a]] = a

C17_UnassociableDropped ==
  [][ /\ ( /\ RecvAssociateStep
           /\ recv_l.is_rtx
           /\ recv_l.buffer.ssrc \notin DOMAIN ssrc2_ssrc1_map
           /\ recv_l.orign_seqnum \notin DOMAIN seqnum_ssrc1_map ) =>
           /\ recv_l'.drop
           /\ ssrc2_ssrc1_map' = ssrc2_ssrc1_map
           /\ seqnum_ssrc1_map' = seqnum_ssrc1_map
           /\ recv_num_rtx_packets' = recv_num_rtx_packets + 1
           /\ num_rtx_assoc_packets' = num_rtx_assoc_packets
           /\ recv_num_rtx_requests' = recv_num_rtx_requests
      /\ (RecvPushStep /\ recv_l.drop) =>
           /\ recv_srcpad' = Pushed(0, "drop", NoBuffer)
           /\ recv_pc' = "idle"
           /\ UNCHANGED << ssrc2_ssrc1_map, seqnum_ssrc1_map,
                           recv_num_rtx_requests, recv_num_rtx_packets,
                           num_rtx_assoc_packets >>
    ]_vars

\* C17 witness: seqnum 1 is requested; an RTX packet with OSN 2 on SSRC 3
\* has been dropped and counted in num_rtx_packets only.
C17_Witness ==
  /\ recv_pc = "idle"
  /\ recv_srcpad.push = "drop"
  /\ recv_n_chain = 1
  /\ seqnum_ssrc1_map = (1 :> 1)
  /\ ssrc2_ssrc1_map = EmptyMap
  /\ recv_num_rtx_packets = 1
  /\ num_rtx_assoc_packets = 0

\* the state of the receiver a master packet leaves alone
RecvTables ==
  << ssrc2_ssrc1_map, seqnum_ssrc1_map, recv_num_rtx_requests,
     recv_num_rtx_packets, num_rtx_assoc_packets >>

\* C18: a packet is taken for a retransmission exactly when its payload
\* type is a key of the live map as refreshed for it; a packet that is not
\* is pushed once, as it came, and no step of its chain call changes the
\* association, the request table or a counter.
C18_PassThrough ==
  [][ /\ (recv_pc = "idle" /\ recv_pc' = "classified") =>
           /\ recv_l'.is_rtx =
                (recv_l'.buffer.pt \in DOMAIN recv_rtx_pt_map')
           /\ UNCHANGED RecvTables
      /\ (RecvAssociateStep /\ ~recv_l.is_rtx) =>
           /\ UNCHANGED RecvTables
           /\ recv_l' = recv_l
      /\ (RecvPushStep /\ ~recv_l.is_rtx) =>
           /\ recv_srcpad' = Pushed(1, "buffer", recv_l.buffer)
           /\ recv_pc' = "idle"
           /\ UNCHANGED RecvTables
    ]_vars

\* C18 witness: with the live map {97 -> 96} and a request stored, a packet
\* with payload type 96, extension and padding has been pushed as it came.
C18_Witness ==
  /\ recv_pc = "idle"
  /\ recv_rtx_pt_map = (97 :> 96)
  /\ recv_srcpad = Pushed(1, "buffer", RtpBuffer(3, 0, 96, 0, Osn2Body))
  /\ seqnum_ssrc1_map = (2 :> 1)
  /\ recv_num_rtx_requests = 1
  /\ recv_num_rtx_packets = 0

\* the packet in chain has an RTX payload type and a payload too short to
\* hold an OSN
RecvShortRtxPacket == recv_l.is_rtx /\ Len(recv_l.buffer.payload) < 2

\* C19: an RTX packet with a payload of less than two bytes is dropped:
\* its chain call reads no OSN from it, associates nothing and ends without
\* a push.
C19_MalformedDropped ==
  [][ /\ (recv_pc = "idle" /\ recv_pc' # "idle" /\ RecvShortRtxPacket') =>
           /\ recv_pc' = "classified"
           /\ recv_l'.orign_seqnum = 0
      /\ (RecvAssociateStep /\ RecvShortRtxPacket) =>
           /\ recv_l'.drop
           /\ ssrc2_ssrc1_map' = ssrc2_ssrc1_map
           /\ seqnum_ssrc1_map' = seqnum_ssrc1_map
      /\ (RecvPushStep /\ RecvShortRtxPacket) =>
           /\ recv_srcpad'.push = "drop"
           /\ recv_pc' = "idle"
    ]_vars

\* the fields of the payload-type-map as set, and the packet just
\* classified
RecvFieldsOf(pt) ==
  { f \in DOMAIN recv_pending_rtx_pt_map : Atoi(f) = pt }

RecvFieldsWith(pt) ==
  { f \in DOMAIN recv_pending_rtx_pt_map : recv_pending_rtx_pt_map[f] = pt }

RecvClassifyStep == recv_pc = "idle" /\ recv_pc' = "classified"

\* C20 as claimed: the field name of a map entry is the RTX payload type
\* and its value the original one: a packet is a retransmission when its
\* payload type is a field name of the map, and is rebuilt with the value
\* of that field as payload type (map {97 -> 96}: 97 is RTX, rebuilt as
\* 96); any other packet is pushed as it came.
C20_PtMapDirection ==
  [][ /\ RecvClassifyStep =>
           LET pt == recv_l'.buffer.pt IN
           /\ recv_l'.is_rtx = (RecvFieldsOf(pt) # {})
           /\ recv_l'.is_rtx =>
                \E f \in RecvFieldsOf(pt) :
                  recv_l'.origin_payload_type = recv_pending_rtx_pt_map[f]
      /\ (RecvPushStep /\ ~recv_l.drop) =>
           recv_srcpad'.buffer.pt = IF RecvRtxPacket
                                    THEN recv_l.origin_payload_type
                                    ELSE recv_l.buffer.pt
    ]_vars

\* C20 amended: as in the sender, the field name of a map entry is the
\* original payload type and its value the RTX one: a packet is a
\* retransmission when its payload type is the value of a field of the
\* map, and is rebuilt with the name of that field as payload type (map
\* {96 -> 97}: 97 is RTX, rebuilt as 96); any other packet is pushed as it
\* came.
C20_PtMapDirectionAsSender ==
  [][ /\ RecvClassifyStep =>
           LET pt == recv_l'.buffer.pt IN
           /\ recv_l'.is_rtx = (RecvFieldsWith(pt) # {})
           /\ recv_l'.is_rtx =>
                \E f \in RecvFieldsWith(pt) :
                  recv_l'.origin_payload_type = Atoi(f)
      /\ (RecvPushStep /\ ~recv_l.drop /\ ~RecvShortRtxPacket) =>
           /\ recv_srcpad'.buffer.pt = IF recv_l.is_rtx
                                       THEN recv_l.origin_payload_type
                                       ELSE recv_l.buffer.pt
           /\ ~recv_l.is_rtx => recv_srcpad'.buffer = recv_l.buffer
    ]_vars

\* C20 witness: the map is set to {96 -> 97}; a packet with payload type 97
\* on the associated SSRC 3 has been rebuilt with payload type 96.
C20_Witness ==
  /\ recv_pc = "idle"
  /\ recv_pending_rtx_pt_map = ("96" :> 97)
  /\ recv_rtx_pt_map = (97 :> 96)
  /\ recv_rtx_pt_map_changed = FALSE
  /\ recv_srcpad.push = "rtx"
  /\ recv_srcpad.buffer.pt = 96
  /\ 3 \in DOMAIN ssrc2_ssrc1_map
  /\ recv_srcpad.buffer.ssrc = ssrc2_ssrc1_map[3]

\* the master SSRC of the association that holds ssrc: ssrc itself where a
\* request named it, its partner otherwise
MasterOfAssociation(ssrc, assoc, masters) ==
  IF ssrc \in masters THEN ssrc ELSE assoc[ssrc]

\* C21: every packet with an RTX payload type that chain forwards, whatever
\* SSRC of the association it arrived on, is forwarded with the master SSRC
\* of that association (the SSRC that the request behind the association
\* named), with the OSN as sequence number and with the original payload
\* type.
C21_ReconstructionHeader ==
  [][ /\ ( /\ RecvAssociateStep
           /\ RecvRtxPacket
           /\ recv_l.buffer.ssrc \in DOMAIN ssrc2_ssrc1_map' ) =>
           recv_l'.ssrc1 =
             MasterOfAssociation(recv_l.buffer.ssrc, ssrc2_ssrc1_map',
                                 assoc_masters')
      /\ (RecvPushStep /\ RecvRtxPacket /\ ~recv_l.drop) =>
           /\ recv_srcpad'.push = "rtx"
           /\ recv_srcpad'.buffer.ssrc = recv_l.ssrc1
           /\ recv_srcpad'.buffer.seq = ReadUint16BE(recv_l.buffer.payload)
           /\ recv_srcpad'.buffer.pt = recv_rtx_pt_map[recv_l.buffer.pt]
    ]_vars

\* the receiver's chain is running on the RTX packet that the sender has
\* pushed last, and the master packet that packet was built from
LinkedRtx ==
  /\ srcpad.push = "rtx"
  /\ l_fn = "chain"
  /\ l_iter - 1 \in 1..Len(l_pending)
  /\ recv_l.buffer = srcpad.buffer

SentFor == l_pending[l_iter - 1]

\* the live map of the receiver is the inverse of the live map of the
\* sender
InverseMaps(send_map, recv_map) ==
  /\ DOMAIN recv_map = { send_map[o] : o \in DOMAIN send_map }
  /\ \A o \in DOMAIN send_map : recv_map[send_map[o]] = o

\* the receiver's chain starts on the sender's RTX packet for a packet whose
\* configured RTX payload type is 96 or more, the maps being inverse
LinkedClassifyStep ==
  /\ Linked
  /\ srcpad.push = "rtx"
  /\ l_iter - 1 \in 1..Len(l_pending)
  /\ SentFor.pt \in DOMAIN rtx_pt_map
  /\ rtx_pt_map[SentFor.pt] >= MinDynamicPt
  /\ InverseMaps(rtx_pt_map, recv_rtx_pt_map')

\* what the three sections of the receiver's chain make of the sender's RTX
\* packet for P, the second under the condition held
RoundTripSteps(held) ==
  /\ LinkedClassifyStep =>
       /\ recv_pc' = "classified"
       /\ recv_l'.is_rtx
       /\ recv_l'.orign_seqnum = SentFor.seq
       /\ recv_l'.origin_payload_type = SentFor.pt
  /\ ( /\ RecvAssociateStep
       /\ LinkedRtx
       /\ recv_l.is_rtx
       /\ recv_l.orign_seqnum = SentFor.seq
       /\ held ) =>
       /\ recv_l'.ssrc1 = SentFor.ssrc
       /\ ~recv_l'.drop
  /\ ( /\ RecvPushStep
       /\ LinkedRtx
       /\ recv_l.is_rtx
       /\ ~recv_l.drop
       /\ recv_l.ssrc1 = SentFor.ssrc
       /\ recv_l.orign_seqnum = SentFor.seq
       /\ recv_l.origin_payload_type = SentFor.pt
       /\ ~SentFor.p ) =>
       /\ recv_srcpad'.push = "rtx"
       /\ recv_srcpad'.buffer = SentFor

\* the receiver holds the request (s, m) for the packet the sender
\* retransmits
HoldsRequest ==
  /\ SentFor.seq \in DOMAIN seqnum_ssrc1_map
  /\ seqnum_ssrc1_map[SentFor.seq] = SentFor.ssrc

NextOp(t) ==
  LET a == lk.at[t] IN
  IF a.i <= Len(a.ops) THEN a.ops[a.i] ELSE [op |-> "return", x |-> a.fn]

\* the fields that the locking discipline is about
LockedState ==
  {"ssrc_data", "rtx_ssrcs", "pending", "rtx_pt_map", "num_rtx_requests",
   "num_rtx_packets", "queue", "next_seqnum", "rtx_ssrc", "clock_rate"}

\* C23: every write of the sender to ssrc_data, rtx_ssrcs, pending, the
\* live payload type map, the counters or a field of an entry is done by a
\* thread that holds rtx->lock.
C23_WritesUnderLock ==
  lk.core = "send" =>
    \A t \in DOMAIN lk.at :
      (NextOp(t).op = "write" /\ NextOp(t).x \in LockedState) =>
        lk.holder = t

\* C28: in both elements no thread pushes a buffer downstream or forwards
\* an event upstream while it holds rtx->lock, and no handler returns with
\* the mutex held, the rejected request of the receiver included.
C28_NoPushUnderLock ==
  \A t \in DOMAIN lk.at :
    NextOp(t).op \in {"push", "forward", "return"} => lk.holder # t

\* C28 witness: in the receiver the upstream thread is about to return from
\* the rejected request, whose path has no forward, and the streaming
\* thread is about to push, while the application holds the mutex.
C28_Witness ==
  /\ lk.core = "recv"
  /\ lk.at["upstream"].fn = "src_event"
  /\ NextOp("upstream").op = "return"
  /\ \A i \in 1..Len(lk.at["upstream"].ops) :
       lk.at["upstream"].ops[i] # gst_pad_event_default
  /\ Len(lk.at["upstream"].ops) > 1
  /\ NextOp("streaming") = gst_pad_push
  /\ lk.holder = "application"

\* the state that reset leaves: of the sender, of the receiver
SendResetState ==
  /\ ssrc_data = EmptyMap
  /\ rtx_ssrcs = EmptyMap
  /\ pending = <<>>
  /\ num_rtx_requests = 0
  /\ num_rtx_packets = 0

RecvResetState ==
  /\ ssrc2_ssrc1_map = EmptyMap
  /\ seqnum_ssrc1_map = EmptyMap
  /\ recv_num_rtx_requests = 0
  /\ recv_num_rtx_packets = 0
  /\ num_rtx_assoc_packets = 0

\* C24: in both elements reset leaves all maps and the pending queue empty
\* and all counters zero, whatever the state it runs in; a reset that runs
\* in the state a reset has left changes nothing (twice is the same as
\* once); and reset leaves the configuration (payload-type map, ssrc-map,
\* max-size-time, max-size-packets) as it is.
C24_IdempotentReset ==
  [][ /\ (SendCore /\ Reset) =>
           /\ SendResetState'
           /\ SendResetState => UNCHANGED vars
           /\ UNCHANGED << pending_rtx_pt_map, rtx_pt_map_changed, rtx_pt_map,
                           external_ssrc_map, max_size_time,
                           max_size_packets >>
      /\ (RecvCore /\ RecvReset) =>
           /\ RecvResetState'
           /\ RecvResetState => UNCHANGED vars
           /\ UNCHANGED << recv_pending_rtx_pt_map, recv_rtx_pt_map_changed,
                           recv_rtx_pt_map >>
    ]_vars

\* C24 witness: the sender has been reset after a request had found its
\* packet: the history, the reverse table, the pending queue and the
\* counters are empty or zero, the payload type map that was set and the
\* live map are still there.
C24_Witness ==
  /\ SendCore
  /\ SendResetState
  /\ event_res.branch = "request_found"
  /\ n_chain >= 1
  /\ pc = "idle"
  /\ pending_rtx_pt_map # EmptyMap
  /\ rtx_pt_map # EmptyMap

\* hash is the table filled from all fields of structure s and from nothing
\* else: of the sender (field name -> value) and of the receiver (value ->
\* field name)
IsTableOf(hash, s) ==
  /\ DOMAIN hash = { Atoi(f) : f \in DOMAIN s }
  /\ \A f \in DOMAIN s : hash[Atoi(f)] = s[f]

IsInvTableOf(hash, s) ==
  /\ DOMAIN hash = { s[f] : f \in DOMAIN s }
  /\ \A v \in DOMAIN hash : \E f \in DOMAIN s : s[f] = v /\ hash[v] = Atoi(f)

\* the streaming thread of the sender takes the step that is the locked
\* section of chain
ChainLockStep == pc = "idle" /\ l_fn = "none" /\ l_fn' = "chain"

\* C27: in both elements setting the payload-type-map changes the pending
\* map and the flag only, never the live map; the first packet ingested
\* after the set is classified with the new map, which replaces the whole
\* live map (no entry of the old one survives), and that ingress clears the
\* flag; an ingress with the flag clear leaves the live map as it is.
C27_DeferredPtMap ==
  [][ /\ (SendCore /\ \E v \in env.pt_maps : SetPayloadTypeMap(v)) =>
           /\ rtx_pt_map' = rtx_pt_map
           /\ rtx_pt_map_changed'
           /\ pending_rtx_pt_map' \in env.pt_maps
           /\ UNCHANGED << ssrc_data, rtx_ssrcs, pending, threadvars >>
      /\ (SendCore /\ ChainLockStep) =>
           /\ ~rtx_pt_map_changed'
           /\ UNCHANGED pending_rtx_pt_map
           /\ IF rtx_pt_map_changed
              THEN IsTableOf(rtx_pt_map', pending_rtx_pt_map)
              ELSE rtx_pt_map' = rtx_pt_map
           /\ IF l_buffer'.pt \in DOMAIN rtx_pt_map'
              THEN /\ l_buffer'.ssrc \in DOMAIN ssrc_data'
                   /\ LET queue == ssrc_data'[l_buffer'.ssrc].queue
                      IN /\ Len(queue) > 0
                         /\ queue[Len(queue)].buffer = l_buffer'
              ELSE UNCHANGED ssrc_data
      /\ (RecvCore /\ \E v \in env.pt_maps : RecvSetPayloadTypeMap(v)) =>
           /\ recv_rtx_pt_map' = recv_rtx_pt_map
           /\ recv_rtx_pt_map_changed'
           /\ recv_pending_rtx_pt_map' \in env.pt_maps
           /\ UNCHANGED << ssrc2_ssrc1_map, seqnum_ssrc1_map, recv_pc,
                           recv_l >>
      /\ (RecvCore /\ recv_pc = "idle" /\ recv_pc' # "idle") =>
           /\ ~recv_rtx_pt_map_changed'
           /\ UNCHANGED recv_pending_rtx_pt_map
           /\ IF recv_rtx_pt_map_changed
              THEN IsInvTableOf(recv_rtx_pt_map', recv_pending_rtx_pt_map)
              ELSE recv_rtx_pt_map' = recv_rtx_pt_map
           /\ recv_l'.is_rtx = (recv_l'.buffer.pt \in DOMAIN recv_rtx_pt_map')
    ]_vars

\* C27 witness: the payload-type-map of the sender was {96: 97, 100: 5}, was
\* set to {100: 200} and a packet with payload type 96 was ingested: the
\* live map is {100: 200}, the flag is clear and the packet is not in the
\* history, which holds the packet ingested under the old map.
C27_Witness ==
  /\ SendCore
  /\ l_fn = "chain"
  /\ l_buffer.pt = 96
  /\ ~rtx_pt_map_changed
  /\ rtx_pt_map = (100 :> 200)
  /\ pending_rtx_pt_map = [k \in {"100"} |-> 200]
  /\ n_chain = 2
  /\ 1 \in DOMAIN ssrc_data
  /\ Len(ssrc_data[1].queue) = 1
  /\ ssrc_data[1].queue[1].buffer.pt = 96

\* C26: num_rtx_packets counts attempts: a chain call that detaches k
\* pending buffers adds exactly k in its locked section, no other step
\* changes the counter but reset, which zeroes it; so num_rtx_packets never
\* exceeds num_rtx_requests.
C26_RtxPacketsCounted ==
  /\ [](num_rtx_packets <= num_rtx_requests)
  /\ [][ /\ ChainLockStep =>
              /\ l_pending' = pending
              /\ pending' = <<>>
              /\ num_rtx_packets' = num_rtx_packets + Len(pending)
         /\ ~ChainLockStep =>
              \/ num_rtx_packets' = num_rtx_packets
              \/ Reset /\ num_rtx_packets' = 0
       ]_vars

\* C26 witness: one request found its packet, a second chain call has
\* detached it and counted it before pushing anything.
C26_Witness ==
  /\ l_fn = "chain"
  /\ pc = "push"
  /\ srcpad = NoPush
  /\ Len(l_pending) = 1
  /\ pending = <<>>
  /\ num_rtx_packets = 1
  /\ num_rtx_requests = 1

\* the streaming thread of the sender builds the next RTX packet
BufferNewStep == l_fn = "chain" /\ pc = "have_data" /\ pc' = "pushrtx"

\* C25: the RTX packets emitted for one master, while its entry stays in
\* ssrc_data, carry consecutive sequence numbers modulo 2^16 in the order
\* of emission: each carries the next_seqnum of the entry, which is then
\* incremented with 16-bit wrap and changed by nothing else, whatever the
\* original sequence numbers and whatever is emitted for other masters.
C25_RtxSeqnums ==
  [][ /\ \A m \in DOMAIN ssrc_data \cap DOMAIN ssrc_data' :
           IF BufferNewStep /\ l_pending[l_iter].ssrc = m
           THEN /\ l_rtx'.seq = ssrc_data[m].next_seqnum
                /\ ssrc_data'[m].next_seqnum =
                     (ssrc_data[m].next_seqnum + 1) % SeqMod
           ELSE ssrc_data'[m].next_seqnum = ssrc_data[m].next_seqnum
      /\ pc = "pushrtx" /\ pc' # "pushrtx" =>
           /\ srcpad'.push = "rtx"
           /\ srcpad'.buffer = l_rtx
    ]_vars

\* C25 witness: packet 2 of master 1 was requested twice; the chain call
\* that ingests a packet of master 2 has pushed the RTX packet with sequence
\* number 65534 and then the one with 65535, and the next_seqnum of the entry
\* of master 1 has wrapped to 0, while the entry of master 2 is where it
\* started.
C25_Witness ==
  /\ l_fn = "chain"
  /\ l_buffer.ssrc = 2
  /\ Len(l_pending) = 2
  /\ l_pending[1].ssrc = 1 /\ l_pending[1].seq = 2
  /\ l_pending[2].ssrc = 1 /\ l_pending[2].seq = 2
  /\ srcpad.n = 2
  /\ srcpad.push = "rtx"
  /\ srcpad.buffer.seq = G_MAXUINT16
  /\ 1 \in DOMAIN ssrc_data
  /\ ssrc_data[1].next_seqnum = 0
  /\ 2 \in DOMAIN ssrc_data
  /\ ssrc_data[2].next_seqnum = G_MAXUINT16 - 1

\* the tables and the pending queue of the sender are empty
SendDrained ==
  /\ ssrc_data = EmptyMap
  /\ rtx_ssrcs = EmptyMap
  /\ pending = <<>>

\* C29: when reset has run while chain was emitting the queue it had
\* detached (the counter that the detach made positive is zero when chain
\* ends), ssrc_data, rtx_ssrcs and pending are empty once the emissions are
\* complete, and they stay empty until the next packet ingress or caps
\* event.
C29_ResetDrains ==
  [][ /\ ( /\ l_fn = "chain" /\ l_fn' = "none"
           /\ Len(l_pending) > 0
           /\ num_rtx_packets = 0 ) => SendDrained'
      /\ (SendDrained /\ l_fn = "none" /\ l_fn' = "none") => SendDrained'
    ]_vars

\* C30: for an entry whose clock_rate is not positive (no caps seen, or caps
\* without clock-rate) the ingress of a packet with max_size_time > 0 evicts
\* no history item on account of time: the history after the ingress is
\* the history before it with the packet appended, less what the bound on
\* the number of packets evicts.
C30_NoClockRateNoTimeBound ==
  [][ ( /\ ChainLockStep
        /\ l_buffer'.pt \in DOMAIN rtx_pt_map'
        /\ max_size_time > 0
        /\ ssrc_data'[l_buffer'.ssrc].clock_rate <= 0 ) =>
        LET buffer == l_buffer'
            item == [seqnum |-> buffer.seq, timestamp |-> buffer.timestamp,
                     buffer |-> buffer]
            queue == Append(QueueOf(ssrc_data, buffer.ssrc), item)
        IN ssrc_data'[buffer.ssrc].queue =
             IF max_size_packets # 0
             THEN EvictByCount(queue, max_size_packets) ELSE queue
    ]_vars

\* C31: the history queue of every SSRC is sorted by seqnum under the 16-bit
\* serial-number comparison: no item sorts after an item behind it,
\* whatever the order in which the packets were ingested.
C31_HistorySorted ==
  \A ssrc \in DOMAIN ssrc_data :
    LET queue == ssrc_data[ssrc].queue
    IN \A i, j \in 1..Len(queue) :
         i < j => buffer_queue_items_cmp(queue[i], queue[j]) <= 0

\* C34: a request for an SSRC whose history holds an item with the seqnum
\* asked for finds it and appends the buffer of such an item to pending,
\* whatever the order in which the stored packets were ingested.
C34_Retrievable ==
  [][ \A seqnum \in env.req_seqs, ssrc \in env.ssrcs :
        ( /\ RetransmissionRequest(seqnum, ssrc)
          /\ ssrc \in DOMAIN ssrc_data
          /\ \E i \in 1..Len(ssrc_data[ssrc].queue) :
               ssrc_data[ssrc].queue[i].seqnum = seqnum % SeqMod ) =>
        /\ event_res'.branch = "request_found"
        /\ \E i \in 1..Len(ssrc_data[ssrc].queue) :
             /\ ssrc_data[ssrc].queue[i].seqnum = seqnum % SeqMod
             /\ pending' = Append(pending, ssrc_data[ssrc].queue[i].buffer)
    ]_vars

\* the association table maps ssrc to another SSRC, its partner
HasPartner(ssrc) ==
  ssrc \in DOMAIN ssrc2_ssrc1_map /\ ssrc2_ssrc1_map[ssrc] # ssrc

\* C32: every request adds exactly one to num_rtx_requests, the rejected
\* ones included; a request for an SSRC that has a partner in the
\* association table, or whose seqnum the request table already maps to
\* its SSRC, is forwarded upstream and changes neither table nor any other
\* field of the element.
C32_NonMutatingRequests ==
  [][ \A seqnum \in env.req_seqs, ssrc \in env.ssrcs :
        RecvRetransmissionRequest(seqnum, ssrc) =>
          /\ recv_num_rtx_requests' = recv_num_rtx_requests + 1
          /\ ( \/ HasPartner(ssrc)
               \/ /\ seqnum \in DOMAIN seqnum_ssrc1_map
                  /\ seqnum_ssrc1_map[seqnum] = ssrc ) =>
               /\ recv_event_res'.res = "forwarded"
               /\ UNCHANGED << ssrc2_ssrc1_map, seqnum_ssrc1_map,
                               recv_rtx_pt_map, recv_pending_rtx_pt_map,
                               recv_rtx_pt_map_changed, recv_num_rtx_packets,
                               num_rtx_assoc_packets >>
    ]_vars

\* the second request names a master that the first request and an RTX
\* packet have associated, and a seqnum that is not in the request table
C32_Witness ==
  /\ recv_event_res.branch = "request_associated"
  /\ recv_event_res.res = "forwarded"
  /\ recv_num_rtx_requests = 2
  /\ HasPartner(recv_event_res.ssrc)
  /\ recv_event_res.ssrc \in assoc_masters
  /\ recv_event_res.seqnum \notin DOMAIN seqnum_ssrc1_map

\* C33: the packet rebuilt from an RTX packet with a padding region of n
\* bytes has a padding region of n bytes: the first n - 1 bytes of the
\* incoming padding, followed by a byte of value n.
C33_PaddingPreserved ==
  [][ ( /\ RecvPushStep
        /\ RecvRtxPacket
        /\ ~recv_l.drop
        /\ Len(recv_l.buffer.padding) > 0 ) =>
        LET n == Len(recv_l.buffer.padding)
        IN /\ recv_srcpad'.push = "rtx"
           /\ recv_srcpad'.buffer.padding =
                SubSeq(recv_l.buffer.padding, 1, n - 1) \o << n >>
    ]_vars

\* C35: a master that a collision event has removed, and that no packet or
\* caps event has named since, is no key of ssrc_data and no master of an
\* entry of rtx_ssrcs, and no RTX packet built from one of its packets is
\* pushed, whatever was waiting for retransmission when it collided.
C35_CollidedMasterEvicted ==
  /\ [](\A m \in collided :
          /\ m \notin DOMAIN ssrc_data
          /\ \A r \in DOMAIN rtx_ssrcs : rtx_ssrcs[r] # m)
  /\ [][ (srcpad'.push = "rtx" /\ srcpad'.n = srcpad.n + 1) =>
           l_pending[l_iter].ssrc \notin collided
    ]_vars

\* C36: the association table maps no SSRC to itself, whatever SSRC the
\* packets with an RTX payload type arrive on.
C36_NoSelfAssociation ==
  \A x \in DOMAIN ssrc2_ssrc1_map : ssrc2_ssrc1_map[x] # x

\* C37: the request table holds no request of a master that has a partner
\* in the association table, and an RTX packet on an SSRC that is not in
\* the association table is never associated with such a master.
C37_NoStaleRequests ==
  /\ [](\A q \in DOMAIN seqnum_ssrc1_map :
          LET m == seqnum_ssrc1_map[q]
          IN ~(m \in assoc_masters /\ HasPartner(m)))
  /\ [][ ( /\ RecvAssociateStep
           /\ recv_l.is_rtx
           /\ recv_l.buffer.ssrc \notin DOMAIN ssrc2_ssrc1_map
           /\ recv_l.buffer.ssrc \in DOMAIN ssrc2_ssrc1_map' ) =>
           ~( /\ ssrc2_ssrc1_map'[recv_l.buffer.ssrc] \in assoc_masters
              /\ HasPartner(ssrc2_ssrc1_map'[recv_l.buffer.ssrc]) )
    ]_vars
============================================================================
